---- MODULE Spec2Model ----
(***************************************************************************)
(* Verification model of parsedantic: the per-class parser cache and       *)
(* forward-declaration registry (models.py), the class-level codec cache   *)
(* (model/base.py), the type-driven parser generator (generator.py) and    *)
(* the bidirectional text codec (codec.py, core/parser.py, inference).     *)
(* Text is a sequence of one-character strings; an index counts the        *)
(* characters already consumed, as in parsy.                               *)
(***************************************************************************)
EXTENDS Integers, Sequences, FiniteSets, TLC

\* ------------------------------------------------------------------ text

Digits == {"0", "1", "2", "3", "4", "5", "6", "7", "8", "9"}

WhitespaceChars == {" ", "\t", "\n"}

FloatLookahead == {".", "e", "E"}

Max2(a, b) == IF a >= b THEN a ELSE b

RECURSIVE SpanIn(_, _, _)
\* end index of the maximal run of characters of C that starts at index i
SpanIn(s, i, C) ==
  IF i < Len(s) /\ s[i + 1] \in C THEN SpanIn(s, i + 1, C) ELSE i

RECURSIVE SpanNotIn(_, _, _)
\* end index of the maximal run of characters outside C that starts at i
SpanNotIn(s, i, C) ==
  IF i < Len(s) /\ s[i + 1] \notin C THEN SpanNotIn(s, i + 1, C) ELSE i

Slice(s, i, j) == SubSeq(s, i + 1, j)

RECURSIVE Flatten(_)
Flatten(ss) == IF ss = <<>> THEN <<>> ELSE Head(ss) \o Flatten(Tail(ss))

RECURSIVE Join(_, _)
\* str.join: the parts with sep between consecutive ones
Join(sep, parts) ==
  IF parts = <<>> THEN <<>>
  ELSE IF Len(parts) = 1 THEN parts[1]
  ELSE parts[1] \o sep \o Join(sep, Tail(parts))

\* --------------------------------------------------------------- regexes
\* Each matcher returns the end index of the match at i, or -1.

\* \s+
MatchWhitespace(s, i) ==
  LET e == SpanIn(s, i, WhitespaceChars) IN IF e > i THEN e ELSE -1

\* \S+
MatchNonWhitespace(s, i) ==
  LET e == SpanNotIn(s, i, WhitespaceChars) IN IF e > i THEN e ELSE -1

\* -?\d+(?![.eE]) with the regex engine's backtracking: the digit run gives
\* back one digit when the full run is followed by '.', 'e' or 'E'.
MatchInteger(s, i) ==
  LET j == IF i < Len(s) /\ s[i + 1] = "-" THEN i + 1 ELSE i
      e == SpanIn(s, j, Digits)
  IN  IF e = j THEN -1
      ELSE IF e < Len(s) /\ s[e + 1] \in FloatLookahead
           THEN (IF e - 1 > j THEN e - 1 ELSE -1)
           ELSE e

\* an optional '-' at i: the index after it
SignEnd(s, i) == IF i < Len(s) /\ s[i + 1] = "-" THEN i + 1 ELSE i

\* e if the run [b, e) is not empty, else no match
NonEmptyRun(b, e) == IF e > b THEN e ELSE -1

\* \d+\.?\d*|\.\d+ at j, d1 being the end of the digits at j
MantissaFrom(s, j, d1) ==
  IF d1 > j
  THEN (IF d1 < Len(s) /\ s[d1 + 1] = "." THEN SpanIn(s, d1 + 1, Digits) ELSE d1)
  ELSE IF j < Len(s) /\ s[j + 1] = "."
       THEN NonEmptyRun(j + 1, SpanIn(s, j + 1, Digits))
       ELSE -1

\* the digits of an exponent that start at g, or the mantissa's end m
ExponentFrom(m, g, h) == IF h > g THEN h ELSE m

\* (?:[eE][+-]?\d+)? after a mantissa that ends at m
ExponentAt(s, m, g) == ExponentFrom(m, g, SpanIn(s, g, Digits))

WithExponent(s, m) ==
  IF m >= 0 /\ m < Len(s) /\ s[m + 1] \in {"e", "E"}
  THEN ExponentAt(s, m, IF m + 1 < Len(s) /\ s[m + 2] \in {"+", "-"}
                        THEN m + 2 ELSE m + 1)
  ELSE m

FloatFrom(s, j) == WithExponent(s, MantissaFrom(s, j, SpanIn(s, j, Digits)))

\* -?(?:\d+\.?\d*|\.\d+)(?:[eE][+-]?\d+)?
MatchFloat(s, i) == FloatFrom(s, SignEnd(s, i))

\* \s*,\s*
MatchCommaSpaced(s, i) ==
  LET c == SpanIn(s, i, WhitespaceChars)
  IN  IF c < Len(s) /\ s[c + 1] = "," THEN SpanIn(s, c + 1, WhitespaceChars) ELSE -1

MatchRegex(re, s, i) ==
  CASE re = "ws"  -> MatchWhitespace(s, i)
    [] re = "comma" -> MatchCommaSpaced(s, i)
    [] re = "nws" -> MatchNonWhitespace(s, i)
    [] re = "int" -> MatchInteger(s, i)
    [] re = "float" -> MatchFloat(s, i)

\* ---------------------------------------------------------------- values
\* Python values carry their runtime type.

IntV(n) == [t |-> "int", v |-> n]
StrV(s) == [t |-> "str", v |-> s]
NoneV == [t |-> "none", v |-> 0]
ListV(xs) == [t |-> "list", v |-> xs]
DictV(d) == [t |-> "dict", v |-> d]
ModelV(cls, d) == [t |-> "model", cls |-> cls, v |-> d]

DigitVal(c) ==
  CASE c = "0" -> 0 [] c = "1" -> 1 [] c = "2" -> 2 [] c = "3" -> 3
    [] c = "4" -> 4 [] c = "5" -> 5 [] c = "6" -> 6 [] c = "7" -> 7
    [] c = "8" -> 8 [] c = "9" -> 9

DigitChar(d) ==
  CASE d = 0 -> "0" [] d = 1 -> "1" [] d = 2 -> "2" [] d = 3 -> "3"
    [] d = 4 -> "4" [] d = 5 -> "5" [] d = 6 -> "6" [] d = 7 -> "7"
    [] d = 8 -> "8" [] d = 9 -> "9"

RECURSIVE NatOfDigits(_)
NatOfDigits(ds) ==
  IF ds = <<>> THEN 0
  ELSE 10 * NatOfDigits(SubSeq(ds, 1, Len(ds) - 1)) + DigitVal(ds[Len(ds)])

\* int(text) for a text matched by the integer pattern
IntOfChars(cs) ==
  IF cs # <<>> /\ cs[1] = "-" THEN 0 - NatOfDigits(Tail(cs))
  ELSE NatOfDigits(cs)

RECURSIVE NatToChars(_)
NatToChars(n) ==
  IF n < 10 THEN <<DigitChar(n)>>
  ELSE NatToChars(n \div 10) \o <<DigitChar(n % 10)>>

\* str(n) for an int n
IntToChars(n) == IF n < 0 THEN <<"-">> \o NatToChars(0 - n) ELSE NatToChars(n)

\* ------------------------------------------------------- parsy combinators
\* A parser is a record tagged by k; Run interprets it on (text, index) and
\* returns [st, idx, val, far]: st is "ok", "fail" (a positioned failure) or
\* "raise" (an exception that is not a parse failure) or "invalid" (a
\* pydantic ValidationError raised by a mapped function), far is the
\* furthest failure index seen (-1 when none).

PString(txt) == [k |-> "string", txt |-> txt]
PRegex(re) == [k |-> "regex", re |-> re]
PSuccess(v) == [k |-> "success", val |-> v]
PEof == [k |-> "eof"]
PAlt(a, b) == [k |-> "alt", a |-> a, b |-> b]
PSeq(ps) == [k |-> "seq", ps |-> ps]
PMap(p, fn) == [k |-> "map", p |-> p, fn |-> fn]
PTimes(p, lo, hi) == [k |-> "times", p |-> p, lo |-> lo, hi |-> hi]
PFwd(cls) == [k |-> "fwd", cls |-> cls]

Fn(name) == [f |-> name]
PThen(a, b) == PMap(PSeq(<<a, b>>), Fn("second"))
PSkip(a, b) == PMap(PSeq(<<a, b>>), Fn("first"))
PResult(p, v) == PThen(p, PSuccess(v))
POptional(p) == PMap(PTimes(p, 0, 1), Fn("first_or_none"))

Unbounded == -1

\* parsy sep_by(sep, min=0): self.times(1) + (sep >> self).times(-1, inf),
\* or no element at all.
PSepBy(e, sep) ==
  PAlt(PMap(PSeq(<<PTimes(e, 1, 1), PTimes(PThen(sep, e), -1, Unbounded)>>),
            Fn("add")),
       PSuccess(ListV(<<>>)))

\* ------------------------------------------------- types and class table
\* A declared field type, as typing reports it.

TInt == [k |-> "int"]
TStr == [k |-> "str"]
TFloat == [k |-> "float"]
TNone == [k |-> "none"]
TBareList == [k |-> "barelist"]
TOther == [k |-> "other"]
TUnion(args) == [k |-> "union", args |-> args]
TList(e) == [k |-> "list", elem |-> e]
TLiteral(vals) == [k |-> "literal", vals |-> vals]
TModel(cls) == [k |-> "model", cls |-> cls]

NoParser == [k |-> "none"]
NoMeta == [has |-> FALSE, parser |-> NoParser, pattern |-> "", sep_by |-> NoParser]

Field(name, ty) == [name |-> name, ty |-> ty, meta |-> NoMeta]

\* ParseField(parser=..., pattern=..., sep_by=...)
ParseField(parser, pat, sep) ==
  [has |-> TRUE, parser |-> parser, pattern |-> pat, sep_by |-> sep]

FieldWith(name, ty, meta) == [name |-> name, ty |-> ty, meta |-> meta]

\* literal("X").result(99)
CustomParser == PResult(PString(<<"X">>), IntV(99))

\* an inner ParseConfig class: field_separator (NoParser when not set) and
\* strict_optional
Config(sep, strict) == [declared |-> TRUE, sep |-> sep, strict |-> strict]
NoConfig == [declared |-> FALSE, sep |-> NoParser, strict |-> TRUE]

Class(parent, fields, config) ==
  [parent |-> parent, fields |-> fields, config |-> config]

Arrow == <<"-", ">">>

\* The record types under study.
ClassTable ==
  [ UnionIS    |-> Class("", <<Field("value", TUnion(<<TInt, TStr>>))>>, NoConfig),
    UnionIFS   |-> Class("", <<Field("value", TUnion(<<TInt, TFloat, TStr>>))>>, NoConfig),
    UnionSI    |-> Class("", <<Field("value", TUnion(<<TStr, TInt>>))>>, NoConfig),
    UnionPair  |-> Class("", <<Field("a", TUnion(<<TInt, TStr>>)),
                               Field("b", TUnion(<<TStr, TInt>>))>>, NoConfig),
    StrictOpt  |-> Class("", <<Field("required", TStr),
                               Field("optional", TUnion(<<TInt, TNone>>))>>,
                         NoConfig),
    StrictOne  |-> Class("", <<Field("value", TUnion(<<TInt, TNone>>))>>,
                         Config(NoParser, TRUE)),
    LenientOpt |-> Class("", <<Field("required", TStr),
                               Field("optional", TUnion(<<TInt, TNone>>))>>,
                         Config(NoParser, FALSE)),
    Node       |-> Class("", <<Field("value", TInt),
                               Field("next", TUnion(<<TModel("Node"), TNone>>))>>,
                         Config(PString(Arrow), FALSE)),
    Wrapper    |-> Class("", <<Field("head", TModel("Node"))>>, NoConfig),
    Ping       |-> Class("", <<Field("value", TInt),
                               Field("pong", TUnion(<<TModel("Pong"), TNone>>))>>,
                         Config(PString(Arrow), FALSE)),
    Pong       |-> Class("", <<Field("value", TInt),
                               Field("ping", TUnion(<<TModel("Ping"), TNone>>))>>,
                         Config(PString(Arrow), FALSE)),
    Bad        |-> Class("", <<Field("items", TBareList)>>, NoConfig),
    Outer      |-> Class("", <<Field("inner", TModel("Bad"))>>, NoConfig),
    Parent     |-> Class("", <<Field("value", TInt)>>, NoConfig),
    Child      |-> Class("Parent", <<Field("extra", TStr)>>, NoConfig),
    Point      |-> Class("", <<Field("x", TInt), Field("y", TInt)>>, NoConfig),
    Csv        |-> Class("", <<Field("a", TInt), Field("b", TInt)>>, NoConfig),
    CommaSpaced |-> Class("", <<Field("a", TInt), Field("b", TInt)>>, NoConfig),
    Rec        |-> Class("", <<Field("name", TStr),
                               Field("maybe", TUnion(<<TInt, TNone>>))>>, NoConfig),
    Tagged     |-> Class("", <<Field("value", TUnion(<<TInt, TStr>>))>>, NoConfig),
    Bag        |-> Class("", <<Field("values", TList(TInt))>>, NoConfig),
    Line       |-> Class("", <<Field("start", TModel("Point")),
                               Field("label", TStr)>>, NoConfig),
    Greedy     |-> Class("", <<Field("prefix", TStr),
                               Field("numbers", TList(TInt)),
                               Field("suffix", TStr)>>, NoConfig),
    CommaBase  |-> Class("", <<Field("a", TInt), Field("b", TInt)>>,
                         Config(PString(<<",">>), FALSE)),
    CommaChild |-> Class("CommaBase", <<Field("c", TUnion(<<TInt, TNone>>))>>,
                         NoConfig),
    StrPair    |-> Class("", <<Field("a", TStr), Field("b", TStr)>>,
                         Config(PString(<<",">>), TRUE)),
    OverOnly   |-> Class("", <<FieldWith("value", TInt,
                                         ParseField(CustomParser, "", NoParser))>>,
                         NoConfig),
    OverLate   |-> Class("", <<Field("a", TInt),
                               FieldWith("b", TInt,
                                         ParseField(CustomParser, "", NoParser))>>,
                         NoConfig),
    OverEarly  |-> Class("", <<FieldWith("a", TInt,
                                         ParseField(CustomParser, "", NoParser)),
                               Field("b", TInt)>>, NoConfig),
    BadLate    |-> Class("", <<Field("a", TStr), Field("items", TBareList)>>,
                         NoConfig),
    LitInt     |-> Class("", <<Field("value", TLiteral(<<IntV(1)>>))>>, NoConfig),
    Unsupported |-> Class("", <<Field("a", TInt), Field("value", TOther)>>,
                          NoConfig),
    SepOnly    |-> Class("", <<FieldWith("value", TInt,
                                         ParseField(NoParser, "", PString(<<",">>)))>>,
                         NoConfig),
    SepLate    |-> Class("", <<Field("a", TInt),
                               FieldWith("b", TInt,
                                         ParseField(NoParser, "", PString(<<",">>)))>>,
                         NoConfig),
    SepList    |-> Class("", <<FieldWith("values", TList(TInt),
                                         ParseField(NoParser, "", PString(<<",">>)))>>,
                         NoConfig),
    CommaList  |-> Class("", <<Field("values", TList(TInt))>>,
                         Config(PString(<<",">>), TRUE)),
    Limited    |-> Class("", <<Field("value", TInt)>>, NoConfig),
    Holder     |-> Class("", <<Field("id", TInt), Field("inner", TModel("Limited"))>>,
                         NoConfig),
    LitOne     |-> Class("", <<Field("value",
                                     TLiteral(<<StrV(<<"a">>), StrV(<<"a", "b">>)>>))>>,
                         NoConfig),
    LitPair    |-> Class("", <<Field("x",
                                     TLiteral(<<StrV(<<"a">>), StrV(<<"a", "b">>)>>)),
                               Field("y",
                                     TLiteral(<<StrV(<<"a", "b">>), StrV(<<"a">>)>>))>>,
                         NoConfig) ]

ClassNames == DOMAIN ClassTable

RECURSIVE FieldsOf(_)
RECURSIVE FieldsFrom(_)
\* model_fields: the inherited fields, then the class's own
FieldsOf(cls) == FieldsFrom(ClassTable[cls])

FieldsFrom(c) ==
  IF c.parent = "" THEN c.fields ELSE FieldsOf(c.parent) \o c.fields

RECURSIVE ParseConfigAttr(_)
RECURSIVE ConfigFrom(_)
\* getattr(model_class, "ParseConfig", None): found along the MRO
ParseConfigAttr(cls) == ConfigFrom(ClassTable[cls])

ConfigFrom(c) ==
  IF c.config.declared THEN c.config
  ELSE IF c.parent = "" THEN NoConfig
  ELSE ParseConfigAttr(c.parent)

\* ------------------------------------------- pydantic: model_validate

\* the fields declared with Field(ge=0)
NonNegativeFields(cls) == IF cls = "Limited" THEN {"value"} ELSE {}

RECURSIVE Conforms(_, _)
\* the value is one the annotation accepts (no decoder here yields a
\* numeric string for an int field, which pydantic would convert)
Conforms(ty, v) ==
  CASE ty.k = "int" -> v.t = "int"
    [] ty.k = "str" -> v.t = "str"
    [] ty.k = "float" -> v.t \in {"float", "int"}
    [] ty.k = "none" -> v.t = "none"
    [] ty.k = "union" -> \E j \in 1..Len(ty.args) : Conforms(ty.args[j], v)
    [] ty.k = "list" ->
         v.t = "list" /\ \A j \in 1..Len(v.v) : Conforms(ty.elem, v.v[j])
    [] ty.k = "literal" ->
         \E j \in 1..Len(ty.vals) : ty.vals[j].t = v.t /\ ty.vals[j].v = v.v
    [] ty.k = "model" -> v.t = "model"
    [] OTHER -> TRUE

\* the value of one field is accepted
ValidField(cls, f, data) ==
  /\ f.name \in DOMAIN data
  /\ Conforms(f.ty, data[f.name])
  /\ f.name \in NonNegativeFields(cls) => data[f.name].v >= 0

\* cls.model_validate(data) returns an instance; it raises ValidationError
\* otherwise
Validates(cls, data) ==
  \A j \in 1..Len(FieldsOf(cls)) : ValidField(cls, FieldsOf(cls)[j], data)

\* --------------------------------------------- parsy: running a parser

ROk(i, v) == [st |-> "ok", idx |-> i, val |-> v, far |-> -1]
RFail(i) == [st |-> "fail", idx |-> i, val |-> NoneV, far |-> i]
RRaise(i) == [st |-> "raise", idx |-> i, val |-> NoneV, far |-> -1]
RInvalid(i) == [st |-> "invalid", idx |-> i, val |-> NoneV, far |-> -1]

\* Result.aggregate: keep this result, remember the furthest failure
Aggregate(r, o) == [r EXCEPT !.far = Max2(r.far, o.far)]

RECURSIVE NormDec(_, _)
\* a decimal m * 10^e without trailing zeros in m
NormDec(m, e) ==
  IF m = 0 THEN <<0, 0>>
  ELSE IF m % 10 = 0 THEN NormDec(m \div 10, e + 1) ELSE <<m, e>>

\* mantissa digits and exponent of a float text: sign end b, integer digits
\* to i1, fraction in [f0, f1), then the exponent if any
FloatParts(cs, b, i1, f0, f1) ==
  [t |-> "float",
   v |-> NormDec((IF b = 1 THEN -1 ELSE 1)
                   * NatOfDigits(Slice(cs, b, i1) \o Slice(cs, f0, f1)),
                 (IF f1 >= Len(cs) THEN 0
                  ELSE IF cs[f1 + 2] = "-"
                       THEN 0 - NatOfDigits(Slice(cs, f1 + 2, Len(cs)))
                       ELSE IF cs[f1 + 2] = "+"
                            THEN NatOfDigits(Slice(cs, f1 + 2, Len(cs)))
                            ELSE NatOfDigits(Slice(cs, f1 + 1, Len(cs))))
                   - (f1 - f0))]

FloatFraction(cs, b, i1, f0) == FloatParts(cs, b, i1, f0, SpanIn(cs, f0, Digits))

FloatInteger(cs, b, i1) ==
  FloatFraction(cs, b, i1, IF i1 < Len(cs) /\ cs[i1 + 1] = "." THEN i1 + 1 ELSE i1)

FloatSigned(cs, b) == FloatInteger(cs, b, SpanIn(cs, b, Digits))

\* float(text) for a text matched by the float pattern, as an exact decimal
FloatOfChars(cs) == FloatSigned(cs, SignEnd(cs, 0))

ZipDict(names, vals) ==
  [n \in {names[j] : j \in 1..Len(names)} |->
     vals[CHOOSE j \in 1..Len(names) :
            /\ names[j] = n
            /\ \A h \in (j + 1)..Len(names) : names[h] # n]]

EvenIndexed(vals) == [j \in 1..((Len(vals) + 1) \div 2) |-> vals[2 * j - 1]]

ApplyFn(fn, x) ==
  CASE fn.f = "int" -> IntV(IntOfChars(x.v))
    [] fn.f = "float" -> FloatOfChars(x.v)
    [] fn.f = "second" -> x.v[2]
    [] fn.f = "first" -> x.v[1]
    [] fn.f = "first_or_none" -> IF x.v = <<>> THEN NoneV ELSE x.v[1]
    [] fn.f = "add" -> ListV(x.v[1].v \o x.v[2].v)
    [] fn.f = "to_mapping" -> DictV(ZipDict(fn.names, x.v))
    [] fn.f = "to_dict" -> DictV(ZipDict(fn.names, EvenIndexed(x.v)))
    [] fn.f = "to_model" ->
         IF x.t = "model" /\ x.cls = fn.cls THEN x ELSE ModelV(fn.cls, x.v)

RECURSIVE Run(_, _, _, _)
RECURSIVE RunSeq(_, _, _, _, _, _)
RECURSIVE RunTimes(_, _, _, _, _, _)
RECURSIVE SeqStep(_, _, _, _, _)
RECURSIVE TimesStep(_, _, _, _, _, _)
RECURSIVE AltStep(_, _, _, _, _)

\* seq(*parsers): each parser in turn, the values collected in a list
RunSeq(ps, s, i, env, vals, prev) ==
  IF ps = <<>> THEN Aggregate(ROk(i, ListV(vals)), prev)
  ELSE SeqStep(Tail(ps), s, env, vals, Aggregate(Run(Head(ps), s, i, env), prev))

\* seq after one parser returned r
SeqStep(rest, s, env, vals, r) ==
  IF r.st # "ok" THEN r
  ELSE RunSeq(rest, s, r.idx, env, Append(vals, r.val), r)

\* Parser.times(min, max): repeat while the parser succeeds
RunTimes(t, s, i, env, vals, prev) ==
  IF t.hi # Unbounded /\ Len(vals) >= t.hi
  THEN Aggregate(ROk(i, ListV(vals)), prev)
  ELSE TimesStep(t, s, i, env, vals, Aggregate(Run(t.p, s, i, env), prev))

\* times after one more attempt returned r
TimesStep(t, s, i, env, vals, r) ==
  IF r.st \in {"raise", "invalid"} THEN r
  ELSE IF r.st = "ok"
       THEN RunTimes(t, s, r.idx, env, Append(vals, r.val), r)
       ELSE IF Len(vals) >= t.lo
            THEN Aggregate(ROk(i, ListV(vals)), r)
            ELSE r

\* alt after the first alternative returned r1
AltStep(b, s, i, env, r1) ==
  IF r1.st # "fail" THEN r1 ELSE Aggregate(Run(b, s, i, env), r1)

\* the mapped function raises: model_validate refuses the mapping
Raises(fn, x) == fn.f = "to_model" /\ x.t # "model" /\ ~Validates(fn.cls, x.v)

\* map after the parser returned r
MapStep(fn, r) ==
  IF r.st # "ok" THEN r
  ELSE IF Raises(fn, r.val) THEN RInvalid(r.idx)
       ELSE Aggregate(ROk(r.idx, ApplyFn(fn, r.val)), r)

\* regex after the match ended at e
RegexStep(s, i, e) == IF e >= 0 THEN ROk(e, StrV(Slice(s, i, e))) ELSE RFail(i)

Run(p, s, i, env) ==
  CASE p.k = "string" ->
         IF i + Len(p.txt) <= Len(s) /\ Slice(s, i, i + Len(p.txt)) = p.txt
         THEN ROk(i + Len(p.txt), StrV(p.txt)) ELSE RFail(i)
    [] p.k = "regex" -> RegexStep(s, i, MatchRegex(p.re, s, i))
    [] p.k = "success" -> ROk(i, p.val)
    [] p.k = "eof" -> IF i >= Len(s) THEN ROk(i, NoneV) ELSE RFail(i)
    [] p.k = "alt" -> AltStep(p.b, s, i, env, Run(p.a, s, i, env))
    [] p.k = "seq" -> RunSeq(p.ps, s, i, env, <<>>, ROk(i, NoneV))
    [] p.k = "map" -> MapStep(p.fn, Run(p.p, s, i, env))
    [] p.k = "times" -> RunTimes(p, s, i, env, <<>>, ROk(i, NoneV))
    [] p.k = "fwd" ->
         \* forward_declaration: usable only after become()
         IF env[p.cls].k = "unresolved" THEN RRaise(i)
         ELSE Run(env[p.cls], s, i, env)

\* Parser.parse(text): (self << eof) from index 0
ParseAll(p, s, env) == Run(PSkip(p, PEof), s, 0, env)

\* ------------------------------------------------ generator.py (parsers)

Err(exc) == [k |-> "error", exc |-> exc]
IsErr(p) == p.k = "error"

NonNone(args) == SelectSeq(args, LAMBDA a : a.k # "none")

\* is_optional_type: (is_optional, inner_type)
IsOptionalType(ty) ==
  IF ty.k # "union" THEN [is |-> FALSE, inner |-> TNone]
  ELSE LET nn == NonNone(ty.args)
       IN  IF Len(nn) < Len(ty.args) /\ nn # <<>>
           THEN [is |-> TRUE,
                 inner |-> IF Len(nn) = 1 THEN nn[1] ELSE TUnion(nn)]
           ELSE [is |-> FALSE, inner |-> TNone]

\* is_union_type: the non-None members in declaration order (<<>>: no union)
IsUnionType(ty) == IF ty.k # "union" THEN <<>> ELSE NonNone(ty.args)

\* is_list_type
IsListType(ty) == ty.k \in {"list", "barelist"}

RECURSIVE TypeKey(_)
\* What a dict keyed by the annotation compares: typing's Union and Literal
\* are equal (and hash alike) whatever the order of their arguments.
TypeKey(ty) ==
  CASE ty.k = "union" ->
         [k |-> "union", args |-> {TypeKey(ty.args[j]) : j \in 1..Len(ty.args)}]
    [] ty.k = "literal" ->
         [k |-> "literal", args |-> {ty.vals[j] : j \in 1..Len(ty.vals)}]
    [] ty.k = "list" -> [k |-> "list", args |-> {TypeKey(ty.elem)}]
    [] OTHER -> ty

RECURSIVE FoldAlt(_)
\* combined = parsers[0]; for alt in parsers[1:]: combined = combined | alt
FoldAlt(ps) ==
  IF Len(ps) = 1 THEN ps[1]
  ELSE PAlt(FoldAlt(SubSeq(ps, 1, Len(ps) - 1)), ps[Len(ps)])

\* the first error of a list of generated parsers, NoParser when none
FirstError(ps) ==
  IF \E j \in 1..Len(ps) : IsErr(ps[j])
  THEN ps[CHOOSE j \in 1..Len(ps) :
            IsErr(ps[j]) /\ \A h \in 1..(j - 1) : ~IsErr(ps[h])]
  ELSE NoParser

\* Literal[...]: string values only, tried in declaration order
LiteralParser(vals) ==
  IF vals = <<>> THEN Err("TypeError")
  ELSE IF \E j \in 1..Len(vals) : vals[j].t # "str"
       THEN Err("NotImplementedError")
       ELSE FoldAlt([j \in 1..Len(vals) |-> PString(vals[j].v)])

ScalarParser(ty) ==
  CASE ty.k = "str" -> PRegex("nws")
    [] ty.k = "int" -> PMap(PRegex("int"), Fn("int"))
    [] ty.k = "float" -> PMap(PRegex("float"), Fn("float"))
    [] OTHER -> Err("NotImplementedError")

RECURSIVE GenerateFieldParser(_, _, _, _)
RECURSIVE BuildModelParser(_, _)
RECURSIVE BaseParsers(_, _, _, _, _)
RECURSIVE GetParserNested(_, _)
RECURSIVE ElementParser(_, _, _)
RECURSIVE MemberParsers(_, _, _, _)
RECURSIVE UnionOrScalar(_, _, _, _)
RECURSIVE Accept(_, _, _, _, _, _, _)

\* ParsableModel._get_parser on a thread that holds the forward declarations
\* of the classes in inprog: the placeholder of a class under construction,
\* else the parser built for the class.
GetParserNested(cls, inprog) ==
  IF cls \in inprog THEN PFwd(cls) ELSE BuildModelParser(cls, inprog \cup {cls})

\* the element parser of a list field
ElementParser(ty, meta, inprog) ==
  IF meta.has /\ meta.parser.k # "none" THEN meta.parser
  ELSE IF meta.has /\ meta.pattern # "" THEN PRegex(meta.pattern)
  ELSE GenerateFieldParser(ty.elem, meta, TRUE, inprog)

\* a list that holds at most one element
ListOfSingle(ep, meta, ign) == IF IsErr(ep) THEN ep ELSE PTimes(ep, 0, 1)

\* element_parser.sep_by(separator)
ListOf(ep, meta, ign) ==
  IF IsErr(ep) THEN ep
  ELSE PSepBy(ep, IF meta.has /\ meta.sep_by.k # "none" /\ ~ign
                  THEN meta.sep_by ELSE PRegex("ws"))

\* nested_parser.map(_to_nested_model)
ToNested(cls, np) ==
  IF IsErr(np) THEN np ELSE PMap(np, [f |-> "to_model", cls |-> cls])

MemberParsers(members, meta, ign, inprog) ==
  [j \in 1..Len(members) |-> GenerateFieldParser(members[j], meta, ign, inprog)]

\* combined = parsers[0] | parsers[1] | ..., unless a member raised
UnionOf(ps) == IF FirstError(ps).k # "none" THEN FirstError(ps) ELSE FoldAlt(ps)

\* the union, Literal and scalar branches for the unwrapped type ft
UnionOrScalar(ft, meta, ign, inprog) ==
  IF IsUnionType(ft) # <<>>
  THEN UnionOf(MemberParsers(IsUnionType(ft), meta, ign, inprog))
  ELSE IF ft.k = "literal" THEN LiteralParser(ft.vals)
  ELSE ScalarParser(ft)

BaseType(ty) == IF IsOptionalType(ty).is THEN IsOptionalType(ty).inner ELSE ty

GenerateFieldParser(ty, meta, ign, inprog) ==
  IF meta.has /\ meta.sep_by.k # "none" /\ ~IsListType(ty) /\ ~ign
  THEN Err("TypeError")
  ELSE IF IsListType(ty)
  THEN (IF ty.k = "barelist" THEN Err("TypeError")
        ELSE ListOf(ElementParser(ty, meta, inprog), meta, ign))
  ELSE IF meta.has /\ meta.parser.k # "none" THEN meta.parser
  ELSE IF meta.has /\ meta.pattern # "" THEN PRegex(meta.pattern)
  ELSE IF ty.k = "model" THEN ToNested(ty.cls, GetParserNested(ty.cls, inprog))
  ELSE UnionOrScalar(BaseType(ty), meta, ign, inprog)

\* the separator a ParseConfig declares, \s+ without one
SeparatorOf(config) ==
  IF config.declared /\ config.sep.k # "none" THEN config.sep ELSE PRegex("ws")

\* a separator lookup that ignores ParseConfig
GetFieldSeparatorDefault(cls) == PRegex("ws")

\* _get_field_separator
GetFieldSeparator(cls) == SeparatorOf(ParseConfigAttr(cls))

\* strict_optional of a ParseConfig, True without one
StrictOf(config) == IF ~config.declared THEN TRUE ELSE config.strict

\* _get_strict_optional
GetStrictOptional(cls) == StrictOf(ParseConfigAttr(cls))

\* an optional handling that ignores strict_optional
OptKindLenient(ty, strict) == IF IsOptionalType(ty).is THEN "lenient" ELSE "none"

\* "none", "strict" or "lenient" for one field
OptKind(ty, strict) ==
  IF IsOptionalType(ty).is THEN (IF ~strict THEN "lenient" ELSE "strict")
  ELSE "none"

\* type_parser_cache lookup: the parser stored under an equal key
CacheHit(cache, key) ==
  IF \E j \in 1..Len(cache) : cache[j].key = key
  THEN cache[CHOOSE j \in 1..Len(cache) : cache[j].key = key].parser
  ELSE NoParser

\* the loop body after the parser of the first of fields is known: fresh
\* parsers enter type_parser_cache, a raised error ends the loop
Accept(fields, strict, cache, acc, inprog, parser, fresh) ==
  IF IsErr(parser) THEN parser
  ELSE BaseParsers(Tail(fields), strict,
                   IF fresh
                   THEN Append(cache, [key |-> TypeKey(BaseType(Head(fields).ty)),
                                       parser |-> parser])
                   ELSE cache,
                   Append(acc, [name |-> Head(fields).name, parser |-> parser,
                                kind |-> OptKind(Head(fields).ty, strict)]),
                   inprog)

\* the cached parser if there is one, else a generated one
CachedOrGenerated(fields, strict, cache, acc, inprog, hit) ==
  Accept(fields, strict, cache, acc, inprog,
         IF hit.k # "none" THEN hit
         ELSE GenerateFieldParser(BaseType(Head(fields).ty), Head(fields).meta,
                                  FALSE, inprog),
         hit.k = "none")

\* the loop over the fields: base_parsers, or the error a field raises
BaseParsers(fields, strict, cache, acc, inprog) ==
  IF fields = <<>> THEN [k |-> "ok", items |-> acc]
  ELSE CachedOrGenerated(fields, strict, cache, acc, inprog,
                         CacheHit(cache, TypeKey(BaseType(Head(fields).ty))))

GarbageToken == PResult(PRegex("nws"), NoneV)

\* field fragments without .optional() around a lenient later field
FieldFragmentRequired(base, j, separator) ==
  IF j = 1
  THEN (IF base[1].kind = "lenient" THEN POptional(base[1].parser)
        ELSE base[1].parser)
  ELSE IF base[j].kind = "lenient"
       THEN PThen(separator, PAlt(base[j].parser, GarbageToken))
       ELSE PThen(separator, base[j].parser)

\* the fragment of the field at position j (1-based) of the sequence
FieldFragment(base, j, separator) ==
  IF j = 1
  THEN (IF base[1].kind = "lenient" THEN POptional(base[1].parser)
        ELSE base[1].parser)
  ELSE IF base[j].kind = "lenient"
       THEN POptional(PThen(separator, PAlt(base[j].parser, GarbageToken)))
       ELSE PThen(separator, base[j].parser)

\* seq(*field_parsers).map(to_mapping), or the error the loop raised
Assemble(built, separator) ==
  IF IsErr(built) THEN built
  ELSE IF built.items = <<>> THEN PSuccess(DictV(<<>>))
  ELSE PMap(PSeq([j \in 1..Len(built.items) |->
                    FieldFragment(built.items, j, separator)]),
            [f |-> "to_mapping",
             names |-> [j \in 1..Len(built.items) |-> built.items[j].name]])

\* build_model_parser
BuildModelParser(cls, inprog) ==
  Assemble(BaseParsers(FieldsOf(cls), GetStrictOptional(cls), <<>>, <<>>, inprog),
           GetFieldSeparator(cls))

\* ------------------------------------------------ models.py: parse (pure)

Unresolved == [k |-> "unresolved"]

\* what a forward declaration stands for: nothing while unresolved or when
\* the class's build raised, else the class's parser
EnvEntry(unresolved, p) == IF unresolved \/ IsErr(p) THEN Unresolved ELSE p

\* What each class's forward declaration has become once the class's own
\* first request has returned; a class whose build raises never resolves it.
ResolvedEnv == [c \in ClassNames |-> EnvEntry(FALSE, BuildModelParser(c, {c}))]

\* no field is named by the failure
NoField == ""

\* the outcome of parse from parsy's result: only parsy's ParseError is
\* caught, so a ValidationError raised inside the parser or by the final
\* cls.model_validate(parsed_data) leaves parse as it is; a parse failure
\* is raised as ParseError.from_parsy_error(exc, text), built from the
\* text, the index and the expectation of parsy's error
Outcome(cls, r) ==
  CASE r.st = "ok" /\ Validates(cls, r.val.v) ->
         [st |-> "ok", val |-> ModelV(cls, r.val.v), index |-> -1,
          field |-> NoField]
    [] r.st = "invalid" \/ r.st = "ok" ->
         [st |-> "ValidationError", val |-> NoneV, index |-> -1,
          field |-> NoField]
    [] r.st = "fail" ->
         [st |-> "ParseError", val |-> NoneV, index |-> r.far,
          field |-> NoField]
    [] OTHER ->
         [st |-> "ValueError", val |-> NoneV, index |-> -1, field |-> NoField]

\* parse with the parser _get_parser returned, or the error it raised
ParseWith(cls, p, text) ==
  IF IsErr(p) THEN [st |-> p.exc, val |-> NoneV, index |-> -1, field |-> NoField]
  ELSE Outcome(cls, ParseAll(p, text, ResolvedEnv))

\* ParsableModel.parse on an empty cache: the outcome and, for a parse
\* failure, the index parsy reports
ParseText(cls, text) == ParseWith(cls, GetParserNested(cls, {}), text)

\* --------------------------------------------------------------- the state

VARIABLES
  dcls,           \* decode: the class whose parse is called
  dtext,          \* decode: the input text
  dres,           \* decode: the outcome of parse
  dstage,         \* decode: "input" before the call, "parsed" after, "off" if unused
  parser_cache,   \* ParsableModel._parser_cache: class -> object id, 0 if absent
  forward_decls,  \* ParsableModel._forward_decls: class -> object id, 0 if absent
  heap,           \* object id -> the parser object, Free until created
  stack,          \* thread -> its call stack, innermost frame last
  done,           \* thread -> the outcome of its last finished call
  nops,           \* thread -> the number of calls it may still start
  regs,           \* class -> placeholders registered since the last clear
  builds,         \* class -> _build_parser calls since the last clear
  returned,       \* class -> ids returned from cache or build since the last clear
  lent,           \* class -> ids returned from _forward_decls since the last clear
  retired,        \* ids returned before the last clear
  text_codec,     \* class -> the _text_codec set on the class itself, 0 if none
  codecs,         \* the TextCodec objects created so far; an id is an index
  got,            \* class -> what its last _get_codec call gave
  rt,             \* a value, its text, the value decoded from it, its text
  etext,          \* errors: the text a failure is reported for
  eindex,         \* errors: the index the failure is reported at
  eerr,           \* errors: the ParseError raised for it, as it renders
  estage          \* errors: "input" before, "raised" after, "off" if unused

decodeVars == <<dcls, dtext, dres, dstage>>

cacheVars == <<parser_cache, forward_decls, heap, stack, done, nops>>

ghostVars == <<regs, builds, returned, lent, retired>>

codecVars == <<text_codec, codecs, got, rt>>

errVars == <<etext, eindex, eerr, estage>>

vars == <<dcls, dtext, dres, dstage, parser_cache, forward_decls, heap, stack,
          done, nops, regs, builds, returned, lent, retired, text_codec, codecs,
          got, rt, etext, eindex, eerr, estage>>

\* calls per thread: one thread alone, two threads together
MaxOps == 3

MaxParOps == 1

\* parser objects per thread: a call creates at most a placeholder and a
\* parser for each of the two classes it builds
MaxObjs == 4 * MaxOps

\* the classes the cache is exercised with
CacheClasses == DOMAIN parser_cache

\* an object id not in use yet
Free == [kind |-> "free", cls |-> "", target |-> 0, refs |-> {}]

NoCall == [op |-> "none", cls |-> "", st |-> "none", obj |-> 0]

\* the cache as it is after import, for the given threads, the classes they
\* use and the number of calls each of them makes
CacheInit(threads, classes, calls) ==
  /\ parser_cache = [c \in classes |-> 0]
  /\ forward_decls = [c \in classes |-> 0]
  /\ heap = [o \in 1..(MaxObjs * Cardinality(threads)) |-> Free]
  /\ stack = [t \in threads |-> <<>>]
  /\ done = [t \in threads |-> NoCall]
  /\ nops = [t \in threads |-> calls]
  /\ regs = [c \in classes |-> 0]
  /\ builds = [c \in classes |-> 0]
  /\ returned = [c \in classes |-> {}]
  /\ lent = [c \in classes |-> {}]
  /\ retired = {}

CacheOff == CacheInit({}, {}, 0)

NoRoundTrip == [stage |-> "off", val |-> NoneV, text |-> <<>>,
                back |-> [st |-> "none", val |-> NoneV], again |-> <<>>]

\* the classes as they are after import: no class has a codec of its own
CodecInit(classes) ==
  /\ text_codec = [c \in classes |-> 0]
  /\ codecs = <<>>
  /\ got = [c \in classes |-> [st |-> "none", id |-> 0]]

CodecOff == CodecInit({}) /\ rt = NoRoundTrip

NoError == [line |-> 0, column |-> 0, field |-> NoField, tail |-> <<>>]

\* no failure is being reported
ErrorsOff ==
  /\ etext = <<>>
  /\ eindex = 0
  /\ eerr = NoError
  /\ estage = "off"

\* ---------------------------------------------- specification: decoding

MaxTokens == 5

DecodeClasses ==
  {"UnionIS", "UnionSI", "UnionPair", "StrictOpt", "StrictOne", "LenientOpt",
   "Node", "UnionIFS"}

\* the tokens the inputs of a class are made of
Vocab(cls) ==
  IF cls = "Node" THEN {<<"1">>, <<"-", "2">>, Arrow, <<"x">>}
  ELSE {<<"1">>, <<"a">>, <<" ">>, <<".">>}

Texts(cls) ==
  {Flatten(ts) : ts \in UNION {[1..n -> Vocab(cls)] : n \in 0..MaxTokens}}

NoResult == [st |-> "none", val |-> NoneV, index |-> -1, field |-> NoField]

DecodeInit ==
  /\ dcls \in DecodeClasses
  /\ dtext \in Texts(dcls)
  /\ dres = NoResult
  /\ dstage = "input"
  /\ CacheOff
  /\ CodecOff
  /\ ErrorsOff

DecodeOff ==
  /\ dcls = "Node"
  /\ dtext = <<>>
  /\ dres = NoResult
  /\ dstage = "off"

\* cls.parse(text)
Parse ==
  /\ dstage = "input"
  /\ dres' = ParseText(dcls, dtext)
  /\ dstage' = "parsed"
  /\ UNCHANGED <<dcls, dtext>>
  /\ UNCHANGED <<cacheVars, ghostVars, codecVars, errVars>>

InitDecode == DecodeInit

NextDecode == Parse

SpecDecode == InitDecode /\ [][NextDecode]_vars

\* ------------------------------------------------- claims on decoding

Parsed == dstage = "parsed"

\* the per-field entries build_model_parser works from (name, parser, kind)
BaseOf(cls) ==
  BaseParsers(FieldsOf(cls), GetStrictOptional(cls), <<>>, <<>>, {cls}).items

FragmentsOf(cls) ==
  [j \in 1..Len(BaseOf(cls)) |->
     FieldFragment(BaseOf(cls), j, GetFieldSeparator(cls))]

\* the result of the fragments before field j, run from the start of text
BeforeField(cls, text, j) ==
  Run(PSeq(SubSeq(FragmentsOf(cls), 1, j - 1)), text, 0, ResolvedEnv)

\* the index at which the value of field j starts (after its separator)
ValueStart(cls, text, j) ==
  IF j = 1 THEN 0
  ELSE Run(GetFieldSeparator(cls), text, BeforeField(cls, text, j).idx,
           ResolvedEnv).idx

\* the decoder of one declared member type, generated on its own
MemberResult(ty, text, pos) ==
  Run(GenerateFieldParser(ty, NoMeta, FALSE, {}), text, pos, ResolvedEnv)

\* the value of the first member, in declaration order, that decodes at pos
FirstMemberValue(members, text, pos) ==
  LET ok == {m \in 1..Len(members) :
               MemberResult(members[m], text, pos).st = "ok"}
  IN  IF ok = {} THEN NoneV
      ELSE MemberResult(members[CHOOSE m \in ok : \A h \in ok : m <= h],
                        text, pos).val

UnionFields(cls) ==
  {j \in 1..Len(FieldsOf(cls)) : IsUnionType(BaseType(FieldsOf(cls)[j].ty)) # <<>>}

\* C7: a union field decodes to the result of the first member, in the
\* field's own declaration order, whose decoder succeeds where the field
\* starts: int | str gives an int for digits, str | int gives the string.
C7_OrderedUnion ==
  (Parsed /\ dres.st = "ok") =>
     \A j \in UnionFields(dcls) :
        dres.val.v[FieldsOf(dcls)[j].name] =
          FirstMemberValue(IsUnionType(BaseType(FieldsOf(dcls)[j].ty)),
                           dtext, ValueStart(dcls, dtext, j))

OptionalFields(cls) ==
  {j \in 1..Len(FieldsOf(cls)) : IsOptionalType(FieldsOf(cls)[j].ty).is}

\* the schema with every optional field decoded as its inner type
InnerSequence(cls) ==
  PMap(PSeq([j \in 1..Len(FieldsOf(cls)) |->
               LET g == GenerateFieldParser(BaseType(FieldsOf(cls)[j].ty),
                                            FieldsOf(cls)[j].meta, FALSE, {cls})
               IN  IF j = 1 THEN g ELSE PThen(GetFieldSeparator(cls), g)]),
       [f |-> "to_mapping",
        names |-> [j \in 1..Len(FieldsOf(cls)) |-> FieldsOf(cls)[j].name]])

\* C8: in strict mode an optional field is decoded exactly like its inner
\* type; a missing or rejected value fails the decode with a parse failure
\* and the field is never absent.
C8_StrictOptional ==
  (Parsed /\ GetStrictOptional(dcls) /\ OptionalFields(dcls) # {}) =>
     LET r == ParseAll(InnerSequence(dcls), dtext, ResolvedEnv)
     IN  /\ (dres.st = "ok") <=> (r.st = "ok")
         /\ dres.st = "ok" =>
              /\ dres.val.v = r.val.v
              /\ \A j \in OptionalFields(dcls) :
                   dres.val.v[FieldsOf(dcls)[j].name] # NoneV
         /\ dres.st # "ok" => (dres.st = "ParseError" /\ dres.index = r.far)

C8_Witness ==
  /\ Parsed
  /\ dcls = "StrictOpt"
  /\ dtext = <<"a", " ", "a">>
  /\ dres.st = "ParseError"

LenientLater(cls) ==
  {j \in 2..Len(BaseOf(cls)) : BaseOf(cls)[j].kind = "lenient"}

\* C9: in lenient mode an optional non-first field whose inner decoder fails
\* on a present token consumes that token (the maximal run of non-whitespace
\* characters) and is absent; at end of input the field and its separator
\* are skipped and the field is absent; the decode does not fail.
C9_LenientOptional ==
  Parsed =>
    \A j \in LenientLater(dcls) :
      LET pre   == BeforeField(dcls, dtext, j)
          frag  == Run(FragmentsOf(dcls)[j], dtext, pre.idx, ResolvedEnv)
          sepr  == Run(GetFieldSeparator(dcls), dtext, pre.idx, ResolvedEnv)
          inner == Run(BaseOf(dcls)[j].parser, dtext, sepr.idx, ResolvedEnv)
          name  == BaseOf(dcls)[j].name
          last  == \A h \in (j + 1)..Len(BaseOf(dcls)) :
                      BaseOf(dcls)[h].kind = "lenient"
      IN  /\ ( /\ pre.st = "ok" /\ sepr.st = "ok" /\ inner.st = "fail"
               /\ sepr.idx < Len(dtext)
               /\ dtext[sepr.idx + 1] \notin WhitespaceChars )
             => /\ frag.st = "ok" /\ frag.val = NoneV
                /\ frag.idx = SpanNotIn(dtext, sepr.idx, WhitespaceChars)
                /\ (last /\ frag.idx = Len(dtext))
                     => (dres.st = "ok" /\ dres.val.v[name] = NoneV)
          /\ (pre.st = "ok" /\ pre.idx = Len(dtext))
             => /\ frag.st = "ok" /\ frag.val = NoneV /\ frag.idx = pre.idx
                /\ last => (dres.st = "ok" /\ dres.val.v[name] = NoneV)

C9_Witness ==
  /\ Parsed
  /\ dcls = "LenientOpt"
  /\ dtext = <<"a", " ", "a", ".">>
  /\ dres.st = "ok"
  /\ dres.val.v["optional"] = NoneV

RECURSIVE SplitArrow(_, _)
\* the pieces of text between the occurrences of "->"
SplitArrow(text, cur) ==
  IF text = <<>> THEN <<cur>>
  ELSE IF Len(text) >= 2 /\ SubSeq(text, 1, 2) = Arrow
       THEN <<cur>> \o SplitArrow(SubSeq(text, 3, Len(text)), <<>>)
       ELSE SplitArrow(Tail(text), Append(cur, Head(text)))

\* a signed decimal integer literal
IsIntText(cs) ==
  LET b == IF cs # <<>> /\ cs[1] = "-" THEN 1 ELSE 0
  IN  Len(cs) > b /\ SpanIn(cs, b, Digits) = Len(cs)

RECURSIVE ChainOf(_)
\* the linked list of Node values holding the given integers
ChainOf(ns) ==
  ModelV("Node",
         [n \in {"value", "next"} |->
            IF n = "value" THEN IntV(Head(ns))
            ELSE IF Len(ns) = 1 THEN NoneV ELSE ChainOf(Tail(ns))])

\* C10: Node(value:int, next: Node|None) with separator "->" and lenient
\* optionals decodes "v1->v2->...->vn" to the chain of n nodes holding
\* v1..vn in order, the last with next absent.
C10_NodeChain ==
  LET parts == SplitArrow(dtext, <<>>)
  IN  ( /\ Parsed /\ dcls = "Node"
        /\ \A j \in 1..Len(parts) : IsIntText(parts[j]) )
      => /\ dres.st = "ok"
         /\ dres.val = ChainOf([j \in 1..Len(parts) |-> IntOfChars(parts[j])])

C10_Witness ==
  /\ Parsed
  /\ dcls = "Node"
  /\ dtext = <<"1", "-", ">", "-", "2", "-", ">", "1">>
  /\ dres.st = "ok"
  /\ dres.val.v["next"].v["next"].v["next"] = NoneV

\* ------------------------------------ specification: decoding, schemas

SchemaClasses ==
  {"Greedy", "CommaBase", "CommaChild", "StrPair", "OverOnly", "OverLate",
   "OverEarly", "Bad", "BadLate", "LitInt", "Unsupported", "SepOnly", "SepLate",
   "SepList", "LitOne", "LitPair", "CommaList"}

SchemaVocab(cls) ==
  CASE cls = "Greedy" -> {<<"a", " ">>, <<"1", " ">>, <<"a">>, <<"1">>, <<".">>}
    [] cls \in {"CommaBase", "CommaChild"} -> {<<"1">>, <<" ">>, <<",">>, <<"a">>}
    [] cls = "StrPair" -> {<<"x">>, <<"y">>, <<",">>, <<" ">>}
    [] cls \in {"OverOnly", "OverLate", "OverEarly"} -> {<<"1">>, <<"X">>, <<" ">>}
    [] cls \in {"Bad", "BadLate", "LitInt", "Unsupported", "SepOnly", "SepLate",
                "SepList", "CommaList"} -> {<<"1">>, <<" ">>, <<",">>}
    [] cls \in {"LitOne", "LitPair"} -> {<<"a">>, <<"b">>, <<" ">>}

SchemaTexts(cls) ==
  {Flatten(ts) : ts \in UNION {[1..n -> SchemaVocab(cls)] : n \in 0..MaxTokens}}

InitSchema ==
  /\ dcls \in SchemaClasses
  /\ dtext \in SchemaTexts(dcls)
  /\ dres = NoResult
  /\ dstage = "input"
  /\ CacheOff
  /\ CodecOff
  /\ ErrorsOff

SpecSchema == InitSchema /\ [][NextDecode]_vars

\* ----------------------------------------------- claims on more schemas

RECURSIVE MoreElements(_, _, _)
\* the integers that follow, each after a run of whitespace, from index e
MoreElements(text, e, acc) ==
  LET w == MatchWhitespace(text, e)
      m == IF w = -1 THEN -1 ELSE MatchInteger(text, w)
  IN  IF m = -1 THEN [vals |-> acc, idx |-> e]
      ELSE MoreElements(text, m, Append(acc, IntV(IntOfChars(Slice(text, w, m)))))

\* the maximal run of whitespace-separated integers that starts at pos
ElementRun(text, pos) ==
  LET m == MatchInteger(text, pos)
  IN  IF m = -1 THEN [vals |-> <<>>, idx |-> pos]
      ELSE MoreElements(text, m, <<IntV(IntOfChars(Slice(text, pos, m)))>>)

\* the text from index i on is one separator and one token
EndsWithToken(text, i) ==
  LET w == MatchWhitespace(text, i)
  IN  w # -1 /\ w < Len(text) /\ MatchNonWhitespace(text, w) = Len(text)

GetParseConfig(cls) ==
  IF ClassTable[cls].config.declared THEN ClassTable[cls].config ELSE NoConfig

\* the decoder of a class under the configuration of the class itself
OwnConfigParser(cls) ==
  Assemble(BaseParsers(FieldsOf(cls), StrictOf(GetParseConfig(cls)), <<>>, <<>>,
                       {cls}),
           SeparatorOf(GetParseConfig(cls)))

\* C12: configuration lookup is exact-type-only. A subtype that declares no
\* ParseConfig of its own is decoded with the default separator (whitespace)
\* and the default strict-optional flag, never with its base type's.
C12_ConfigNotInherited ==
  (Parsed /\ dcls \in {"CommaBase", "CommaChild"}) =>
     dres = ParseWith(dcls, OwnConfigParser(dcls), dtext)

\* a non-empty token without whitespace and without the separator ","
PlainToken(cs) ==
  cs # <<>> /\ \A j \in 1..Len(cs) : cs[j] \notin WhitespaceChars \cup {","}

\* C13: with the literal separator "," a string field stops before the
\* separator: a text made of two plain tokens around one "," decodes to
\* the two tokens.
C13_StringStopsAtSeparator ==
  (Parsed /\ dcls = "StrPair") =>
    \A c \in 1..Len(dtext) :
      ( /\ dtext[c] = ","
        /\ PlainToken(SubSeq(dtext, 1, c - 1))
        /\ PlainToken(SubSeq(dtext, c + 1, Len(dtext))) )
      => /\ dres.st = "ok"
         /\ dres.val.v["a"] = StrV(SubSeq(dtext, 1, c - 1))
         /\ dres.val.v["b"] = StrV(SubSeq(dtext, c + 1, Len(dtext)))

\* the decoder a field has by its own declaration: its override if it
\* carries one, else the decoder of its type
OwnParser(f) ==
  IF f.meta.has /\ f.meta.parser.k # "none" THEN f.meta.parser
  ELSE IF f.meta.has /\ f.meta.pattern # "" THEN PRegex(f.meta.pattern)
  ELSE GenerateFieldParser(BaseType(f.ty), NoMeta, FALSE, {})

\* the schema decoded field by field, each field by its own decoder
OwnSequence(cls) ==
  Assemble([k |-> "ok",
            items |-> [j \in 1..Len(FieldsOf(cls)) |->
                         [name |-> FieldsOf(cls)[j].name,
                          parser |-> OwnParser(FieldsOf(cls)[j]),
                          kind |-> OptKind(FieldsOf(cls)[j].ty,
                                           GetStrictOptional(cls))]]],
           GetFieldSeparator(cls))

OverrideClasses == {"OverOnly", "OverLate", "OverEarly"}

\* C14: a field that carries an override is decoded by that override and a
\* field without one by its type, whatever the other fields of the schema
\* are: an earlier field of the same declared type changes nothing.
C14_OverrideFirst ==
  (Parsed /\ dcls \in OverrideClasses) =>
     dres = ParseWith(dcls, OwnSequence(dcls), dtext)

RECURSIVE Rejected(_)
\* a type no decoder can be built for: a list without an element type, a
\* literal set with a value that is not a string, an unsupported type
Rejected(ty) ==
  CASE ty.k = "barelist" -> TRUE
    [] ty.k = "other" -> TRUE
    [] ty.k = "literal" -> \E j \in 1..Len(ty.vals) : ty.vals[j].t # "str"
    [] ty.k = "list" -> Rejected(ty.elem)
    [] ty.k = "union" -> \E j \in 1..Len(ty.args) : Rejected(ty.args[j])
    [] OTHER -> FALSE

\* the declaration of the field is a configuration error
Misconfigured(f) ==
  \/ Rejected(f.ty)
  \/ f.meta.has /\ f.meta.sep_by.k # "none" /\ ~IsListType(f.ty)

ConfigurationErrors == {"TypeError", "NotImplementedError"}

ErrorClasses ==
  {"Bad", "BadLate", "LitInt", "Unsupported", "SepOnly", "SepLate", "SepList"}

\* C15: a schema with a misconfigured field, at whatever position, is
\* rejected with a configuration error when its decoder is built, whatever
\* the input; a schema without one never raises a configuration error.
C15_RejectedAtBuild ==
  (Parsed /\ dcls \in ErrorClasses) =>
     ((\E j \in 1..Len(FieldsOf(dcls)) : Misconfigured(FieldsOf(dcls)[j]))
        <=> dres.st \in ConfigurationErrors)

\* the string lit stands in text at index pos
StandsAt(lit, text, pos) ==
  pos + Len(lit) <= Len(text) /\ SubSeq(text, pos + 1, pos + Len(lit)) = lit

\* the positions, in declaration order, of the literals that stand at pos
MatchingLiterals(vals, text, pos) ==
  {m \in 1..Len(vals) : StandsAt(vals[m].v, text, pos)}

LiteralFields(cls) ==
  {j \in 1..Len(FieldsOf(cls)) : FieldsOf(cls)[j].ty.k = "literal"}

\* C16: a literal field yields the first of its strings, in declaration
\* order, that stands at the position where the field starts; when none
\* does, the decode fails at that position; the value is never a string
\* outside the declared set.
C16_LiteralOrder ==
  (Parsed /\ dcls \in {"LitOne", "LitPair"}) =>
    \A j \in LiteralFields(dcls) :
      LET vals == FieldsOf(dcls)[j].ty.vals
          pre  == BeforeField(dcls, dtext, j)
          pos  == ValueStart(dcls, dtext, j)
          frag == Run(FragmentsOf(dcls)[j], dtext, pre.idx, ResolvedEnv)
          ms   == MatchingLiterals(vals, dtext, pos)
          at   == /\ pre.st = "ok"
                  /\ j > 1 => Run(GetFieldSeparator(dcls), dtext, pre.idx,
                                   ResolvedEnv).st = "ok"
      IN  /\ (at /\ ms # {}) =>
                /\ frag.st = "ok"
                /\ frag.val = vals[CHOOSE m \in ms : \A h \in ms : m <= h]
          /\ (at /\ ms = {}) =>
                /\ frag.st = "fail"
                /\ frag.far = pos
                /\ dres.st = "ParseError"
                /\ dres.index = pos
          /\ dres.st = "ok" =>
                \E m \in 1..Len(vals) :
                  dres.val.v[FieldsOf(dcls)[j].name] = vals[m]

\* the fields whose own fragment fails: the fields before it and its
\* separator decode, its value does not
FailingFields(cls, text) ==
  {j \in 1..Len(FieldsOf(cls)) :
     /\ BeforeField(cls, text, j).st = "ok"
     /\ j > 1 => Run(GetFieldSeparator(cls), text,
                      BeforeField(cls, text, j).idx, ResolvedEnv).st = "ok"
     /\ Run(FragmentsOf(cls)[j], text, BeforeField(cls, text, j).idx,
            ResolvedEnv).st = "fail"}

\* C19: when decoding a schema of several fields fails inside one field's
\* fragment, the failure raised to the caller names that field.
C19_FieldNamed ==
  (Parsed /\ dres.st = "ParseError" /\ Len(FieldsOf(dcls)) >= 2) =>
     \A j \in FailingFields(dcls, dtext) : dres.field = FieldsOf(dcls)[j].name

\* ------------------------------------- models.py: the parser cache machine

Threads == DOMAIN stack

\* heap objects
Placeholder(cls) == [kind |-> "placeholder", cls |-> cls, target |-> 0, refs |-> {}]
ParserObj(cls, refs) == [kind |-> "parser", cls |-> cls, target |-> 0, refs |-> refs]

\* call frames
GetFrame(cls) ==
  [op |-> "get", cls |-> cls, pc |-> "check_cache", ph |-> 0, val |-> 0,
   fi |-> 1, k |-> 1, refs |-> {}, text |-> <<>>]
ParseFrame(cls, text) ==
  [op |-> "parse", cls |-> cls, pc |-> "call", ph |-> 0, val |-> 0,
   fi |-> 1, k |-> 1, refs |-> {}, text |-> text]
ClearFrame ==
  [op |-> "clear", cls |-> "", pc |-> "clear_cache", ph |-> 0, val |-> 0,
   fi |-> 1, k |-> 1, refs |-> {}, text |-> <<>>]

\* the ids thread t gives to the objects it creates
OwnIds(t) == {o \in DOMAIN heap : o % Cardinality(Threads) = t % Cardinality(Threads)}

CanCreate(t) == \E o \in OwnIds(t) : heap[o] = Free

\* id(...) of the next object thread t creates
NewId(t) == CHOOSE o \in OwnIds(t) :
              heap[o] = Free /\ \A x \in OwnIds(t) : heap[x] = Free => o <= x

Top(t) == stack[t][Len(stack[t])]
At(t, op, pc) == stack[t] # <<>> /\ Top(t).op = op /\ Top(t).pc = pc
SetTop(t, f) == [stack EXCEPT ![t] = [@ EXCEPT ![Len(@)] = f]]
Push(t, f) == [stack EXCEPT ![t] = Append(@, f)]

RECURSIVE Requests(_)
\* the nested models whose _get_parser generate_field_parser calls, in order
Requests(ty) ==
  CASE ty.k = "model" -> <<ty.cls>>
    [] ty.k = "list"  -> Requests(ty.elem)
    [] ty.k = "union" ->
         Flatten([j \in 1..Len(NonNone(ty.args)) |-> Requests(NonNone(ty.args)[j])])
    [] OTHER -> <<>>

\* the field's type already has an entry in type_parser_cache
TypeCached(fields, j) ==
  \E h \in 1..(j - 1) : TypeKey(BaseType(fields[h].ty)) = TypeKey(BaseType(fields[j].ty))

\* the nested requests of the field at j: none when the parser comes from
\* type_parser_cache or from the field's own parser or pattern
RequestsOf(fields, j) ==
  IF TypeCached(fields, j) \/ (fields[j].meta.has /\ ~IsListType(BaseType(fields[j].ty))
                                 /\ (fields[j].meta.parser.k # "none"
                                       \/ fields[j].meta.pattern # ""))
  THEN <<>>
  ELSE Requests(BaseType(fields[j].ty))

FieldRequests(cls, j) == RequestsOf(FieldsOf(cls), j)

\* the exception a generated parser stands for, "none" for a parser
RaisedBy(cached, g) == IF ~cached /\ IsErr(g) THEN g.exc ELSE "none"

RaisesOf(fields, j) ==
  RaisedBy(TypeCached(fields, j),
           GenerateFieldParser(BaseType(fields[j].ty), fields[j].meta, FALSE,
                               ClassNames))

\* the error generate_field_parser raises for the field itself, or "none"
FieldRaises(cls, j) == RaisesOf(FieldsOf(cls), j)

\* the frame returns obj to its caller: the pending call of a build, the
\* parse that asked for the parser, or the thread's top level
ReturnTo(t, obj) ==
  LET rest == SubSeq(stack[t], 1, Len(stack[t]) - 1)
      c == rest[Len(rest)]
  IN  IF rest = <<>>
      THEN /\ stack' = [stack EXCEPT ![t] = <<>>]
           /\ done' = [done EXCEPT ![t] = [op |-> "get", cls |-> Top(t).cls,
                                           st |-> "ok", obj |-> obj]]
      ELSE /\ stack' = [stack EXCEPT ![t] =
                          [rest EXCEPT ![Len(rest)] =
                             IF c.op = "parse" THEN [c EXCEPT !.pc = "run", !.val = obj]
                             ELSE [c EXCEPT !.k = @ + 1, !.refs = @ \cup {obj}]]]
           /\ done' = done

\* an exception leaves every frame of the thread: no frame handles it
Raise(t, exc) ==
  /\ stack' = [stack EXCEPT ![t] = <<>>]
  /\ done' = [done EXCEPT ![t] = [op |-> stack[t][1].op, cls |-> stack[t][1].cls,
                                  st |-> exc, obj |-> 0]]

\* a call from the thread's top level
StartGetParser(t, cls) ==
  /\ stack[t] = <<>>
  /\ nops[t] > 0
  /\ nops' = [nops EXCEPT ![t] = @ - 1]
  /\ stack' = Push(t, GetFrame(cls))
  /\ UNCHANGED <<parser_cache, forward_decls, heap, done, ghostVars, decodeVars, codecVars, errVars>>

StartParse(t, cls, text) ==
  /\ stack[t] = <<>>
  /\ nops[t] > 0
  /\ nops' = [nops EXCEPT ![t] = @ - 1]
  /\ stack' = Push(t, ParseFrame(cls, text))
  /\ UNCHANGED <<parser_cache, forward_decls, heap, done, ghostVars, decodeVars, codecVars, errVars>>

StartClear(t) ==
  /\ stack[t] = <<>>
  /\ nops[t] > 0
  /\ nops' = [nops EXCEPT ![t] = @ - 1]
  /\ stack' = Push(t, ClearFrame)
  /\ UNCHANGED <<parser_cache, forward_decls, heap, done, ghostVars, decodeVars, codecVars, errVars>>

\* parse: parser = cls._get_parser()
ParseCall(t) ==
  /\ At(t, "parse", "call")
  /\ stack' = [stack EXCEPT ![t] =
                 Append([@ EXCEPT ![Len(@)] = [Top(t) EXCEPT !.pc = "wait"]],
                        GetFrame(Top(t).cls))]
  /\ UNCHANGED <<parser_cache, forward_decls, heap, done, nops, ghostVars, decodeVars, codecVars, errVars>>

\* _get_parser: if cls in cls._parser_cache
CheckCache(t) ==
  /\ At(t, "get", "check_cache")
  /\ stack' = SetTop(t, [Top(t) EXCEPT !.pc =
                 IF parser_cache[Top(t).cls] # 0 THEN "read_cache" ELSE "check_fwd"])
  /\ UNCHANGED <<parser_cache, forward_decls, heap, done, nops, ghostVars, decodeVars, codecVars, errVars>>

\* _get_parser: return cls._parser_cache[cls]
ReadCache(t) ==
  /\ At(t, "get", "read_cache")
  /\ IF parser_cache[Top(t).cls] # 0
     THEN /\ ReturnTo(t, parser_cache[Top(t).cls])
          /\ returned' = [returned EXCEPT ![Top(t).cls] = @ \cup {parser_cache[Top(t).cls]}]
     ELSE /\ Raise(t, "KeyError")
          /\ returned' = returned
  /\ UNCHANGED <<parser_cache, forward_decls, heap, nops, regs, builds, lent,
                 retired, decodeVars, codecVars, errVars>>

\* a lookup that never finds the class in the registry
CheckFwdMissing(t) ==
  /\ At(t, "get", "check_fwd")
  /\ stack' = SetTop(t, [Top(t) EXCEPT !.pc = "register"])
  /\ UNCHANGED <<parser_cache, forward_decls, heap, done, nops, ghostVars, decodeVars, codecVars, errVars>>

\* _get_parser: if cls in cls._forward_decls
CheckFwd(t) ==
  /\ At(t, "get", "check_fwd")
  /\ stack' = SetTop(t, [Top(t) EXCEPT !.pc =
                 IF forward_decls[Top(t).cls] # 0 THEN "read_fwd" ELSE "register"])
  /\ UNCHANGED <<parser_cache, forward_decls, heap, done, nops, ghostVars, decodeVars, codecVars, errVars>>

\* _get_parser: return cls._forward_decls[cls]
ReadFwd(t) ==
  /\ At(t, "get", "read_fwd")
  /\ IF forward_decls[Top(t).cls] # 0
     THEN /\ ReturnTo(t, forward_decls[Top(t).cls])
          /\ lent' = [lent EXCEPT ![Top(t).cls] = @ \cup {forward_decls[Top(t).cls]}]
     ELSE /\ Raise(t, "KeyError")
          /\ lent' = lent
  /\ UNCHANGED <<parser_cache, forward_decls, heap, nops, regs, builds, returned,
                 retired, decodeVars, codecVars, errVars>>

\* _get_parser: placeholder = forward_declaration(); _forward_decls[cls] = placeholder
Register(t) ==
  /\ At(t, "get", "register")
  /\ CanCreate(t)
  /\ heap' = [heap EXCEPT ![NewId(t)] = Placeholder(Top(t).cls)]
  /\ forward_decls' = [forward_decls EXCEPT ![Top(t).cls] = NewId(t)]
  /\ stack' = SetTop(t, [Top(t) EXCEPT !.pc = "call_build", !.ph = NewId(t)])
  /\ regs' = [regs EXCEPT ![Top(t).cls] = @ + 1]
  /\ UNCHANGED <<parser_cache, done, nops, builds, returned, lent, retired, decodeVars, codecVars, errVars>>

\* _get_parser: parser = cls._build_parser(), entering build_model_parser
CallBuild(t) ==
  /\ At(t, "get", "call_build")
  /\ stack' = SetTop(t, [Top(t) EXCEPT !.pc = "field", !.fi = 1, !.k = 1])
  /\ builds' = [builds EXCEPT ![Top(t).cls] = @ + 1]
  /\ UNCHANGED <<parser_cache, forward_decls, heap, done, nops, regs, returned,
                 lent, retired, decodeVars, codecVars, errVars>>

\* one field of the loop, given its nested requests and its own error
FieldOutcome(t, f, reqs, exc) ==
  IF f.k <= Len(reqs)
  THEN /\ stack' = Push(t, GetFrame(reqs[f.k]))
       /\ done' = done
  ELSE IF exc # "none"
       THEN Raise(t, exc)
       ELSE /\ stack' = SetTop(t, [f EXCEPT !.fi = @ + 1, !.k = 1])
            /\ done' = done

\* build_model_parser: generate_field_parser for the field at fi: the next
\* nested _get_parser call, else the field's own error, else the next field
GenerateField(t) ==
  /\ At(t, "get", "field")
  /\ Top(t).fi <= Len(FieldsOf(Top(t).cls))
  /\ FieldOutcome(t, Top(t), FieldRequests(Top(t).cls, Top(t).fi),
                  FieldRaises(Top(t).cls, Top(t).fi))
  /\ UNCHANGED <<parser_cache, forward_decls, heap, nops, ghostVars, decodeVars, codecVars, errVars>>

\* build_model_parser: return seq(*field_parsers).map(to_mapping)
FinishBuild(t) ==
  /\ At(t, "get", "field")
  /\ Top(t).fi > Len(FieldsOf(Top(t).cls))
  /\ CanCreate(t)
  /\ heap' = [heap EXCEPT ![NewId(t)] = ParserObj(Top(t).cls, Top(t).refs)]
  /\ stack' = SetTop(t, [Top(t) EXCEPT !.pc = "become", !.val = NewId(t)])
  /\ UNCHANGED <<parser_cache, forward_decls, done, nops, ghostVars, decodeVars, codecVars, errVars>>

\* a step that leaves the forward declaration as it is
BecomeNothing(t) ==
  /\ At(t, "get", "become")
  /\ stack' = SetTop(t, [Top(t) EXCEPT !.pc = "store"])
  /\ UNCHANGED <<parser_cache, forward_decls, heap, done, nops, ghostVars, decodeVars, codecVars, errVars>>

\* _get_parser: placeholder.become(parser)
Become(t) ==
  /\ At(t, "get", "become")
  /\ heap' = [heap EXCEPT ![Top(t).ph].target = Top(t).val]
  /\ stack' = SetTop(t, [Top(t) EXCEPT !.pc = "store"])
  /\ UNCHANGED <<parser_cache, forward_decls, done, nops, ghostVars, decodeVars, codecVars, errVars>>

\* a store that loses the parser
StoredEntryDropped(cache, cls, parser) == cache

\* the id _parser_cache[cls] = parser leaves in the cache
StoredEntry(cache, cls, parser) == [cache EXCEPT ![cls] = parser]

\* _get_parser: cls._parser_cache[cls] = parser
Store(t) ==
  /\ At(t, "get", "store")
  /\ parser_cache' = StoredEntry(parser_cache, Top(t).cls, Top(t).val)
  /\ stack' = SetTop(t, [Top(t) EXCEPT !.pc = "del"])
  /\ UNCHANGED <<forward_decls, heap, done, nops, ghostVars, decodeVars, codecVars, errVars>>

\* a return that leaves the registry entry behind
DelForwardKeeping(t) ==
  /\ At(t, "get", "del")
  /\ ReturnTo(t, Top(t).val)
  /\ returned' = [returned EXCEPT ![Top(t).cls] = @ \cup {Top(t).val}]
  /\ UNCHANGED forward_decls
  /\ UNCHANGED <<parser_cache, heap, nops, regs, builds, lent, retired, decodeVars, codecVars, errVars>>

\* _get_parser: del cls._forward_decls[cls]; return parser
DelForward(t) ==
  /\ At(t, "get", "del")
  /\ IF forward_decls[Top(t).cls] # 0
     THEN /\ forward_decls' = [forward_decls EXCEPT ![Top(t).cls] = 0]
          /\ ReturnTo(t, Top(t).val)
          /\ returned' = [returned EXCEPT ![Top(t).cls] = @ \cup {Top(t).val}]
     ELSE /\ Raise(t, "KeyError")
          /\ UNCHANGED <<forward_decls, returned>>
  /\ UNCHANGED <<parser_cache, heap, nops, regs, builds, lent, retired, decodeVars, codecVars, errVars>>

RECURSIVE ReachFrom(_, _)
\* the objects a parser reaches through its references and resolved placeholders
ReachFrom(todo, seen) ==
  IF todo = {} THEN seen
  ELSE LET o == CHOOSE x \in todo : TRUE
           nxt == (heap[o].refs \cup (IF heap[o].target # 0 THEN {heap[o].target} ELSE {}))
                    \ (seen \cup {o})
       IN  ReachFrom((todo \ {o}) \cup nxt, seen \cup {o})

IsUnresolved(o) == heap[o].kind = "placeholder" /\ heap[o].target = 0

\* the classes with an unresolved forward declaration among the objects
UnresolvedIn(objs) == {heap[o].cls : o \in {x \in objs : IsUnresolved(x)}}

\* what the forward declarations reachable from the object stand for
EnvOf(unres) ==
  [c \in ClassNames |-> EnvEntry(c \in unres, BuildModelParser(c, ClassNames))]

ObjEnv(obj) == EnvOf(UnresolvedIn(ReachFrom({obj}, {})))

\* the parser object behind a resolved forward declaration
Deref(obj) == IF heap[obj].target # 0 THEN heap[obj].target ELSE obj

\* the exception, if any, that parse lets through
StatusOf(r) ==
  CASE r.st = "ok" -> "ok"
    [] r.st = "fail" -> "ParseError"
    [] OTHER -> "ValueError"

\* parser.parse(text) followed by model_validate
RunObject(obj, cls, text) ==
  IF IsUnresolved(obj) THEN "ValueError"
  ELSE StatusOf(ParseAll(PFwd(heap[Deref(obj)].cls), text, ObjEnv(obj)))

\* parse: parser.parse(text), the conversion of a parse failure, model_validate
RunParser(t) ==
  /\ At(t, "parse", "run")
  /\ stack' = [stack EXCEPT ![t] = <<>>]
  /\ done' = [done EXCEPT ![t] = [op |-> "parse", cls |-> Top(t).cls,
                                  st |-> RunObject(Top(t).val, Top(t).cls, Top(t).text),
                                  obj |-> Top(t).val]]
  /\ UNCHANGED <<parser_cache, forward_decls, heap, nops, ghostVars, decodeVars, codecVars, errVars>>

\* clear_parser_cache: cls._parser_cache.clear()
ClearCache(t) ==
  /\ At(t, "clear", "clear_cache")
  /\ parser_cache' = [c \in CacheClasses |-> 0]
  /\ stack' = SetTop(t, [Top(t) EXCEPT !.pc = "clear_fwd"])
  /\ regs' = [c \in CacheClasses |-> 0]
  /\ builds' = [c \in CacheClasses |-> 0]
  /\ returned' = [c \in CacheClasses |-> {}]
  /\ lent' = [c \in CacheClasses |-> {}]
  /\ retired' = retired \cup UNION {returned[c] \cup lent[c] : c \in CacheClasses}
  /\ UNCHANGED <<forward_decls, heap, done, nops, decodeVars, codecVars, errVars>>

\* a clear that also resets the forward declarations it drops
ClearFwdResetting(t) ==
  /\ At(t, "clear", "clear_fwd")
  /\ forward_decls' = [c \in CacheClasses |-> 0]
  /\ heap' = [o \in DOMAIN heap |->
                IF heap[o].kind = "placeholder" THEN [heap[o] EXCEPT !.target = 0]
                ELSE heap[o]]
  /\ stack' = [stack EXCEPT ![t] = <<>>]
  /\ done' = [done EXCEPT ![t] = [op |-> "clear", cls |-> "", st |-> "ok", obj |-> 0]]
  /\ UNCHANGED <<parser_cache, nops, ghostVars, decodeVars, codecVars, errVars>>

\* clear_parser_cache: cls._forward_decls.clear()
ClearFwd(t) ==
  /\ At(t, "clear", "clear_fwd")
  /\ forward_decls' = [c \in CacheClasses |-> 0]
  /\ stack' = [stack EXCEPT ![t] = <<>>]
  /\ done' = [done EXCEPT ![t] = [op |-> "clear", cls |-> "", st |-> "ok", obj |-> 0]]
  /\ UNCHANGED <<parser_cache, heap, nops, ghostVars, decodeVars, codecVars, errVars>>

\* the texts parse is called with
CacheTexts == {<<"1">>, <<"x">>, <<"1", "-", ">", "1">>}

Init == DecodeOff /\ CodecOff /\ ErrorsOff /\ CacheInit({1, 2}, {"Node", "Wrapper"}, MaxParOps)

InitSeq ==
  DecodeOff /\ CodecOff /\ ErrorsOff /\ CacheInit({1}, {"Node", "Wrapper", "Bad", "Outer"}, MaxOps)

Next ==
  \/ \E t \in Threads : \E cls \in CacheClasses : StartGetParser(t, cls)
  \/ \E t \in Threads : \E cls \in CacheClasses : \E text \in CacheTexts :
        StartParse(t, cls, text)
  \/ \E t \in Threads : StartClear(t)
  \/ \E t \in Threads : ParseCall(t)
  \/ \E t \in Threads : CheckCache(t)
  \/ \E t \in Threads : ReadCache(t)
  \/ \E t \in Threads : CheckFwd(t)
  \/ \E t \in Threads : ReadFwd(t)
  \/ \E t \in Threads : Register(t)
  \/ \E t \in Threads : CallBuild(t)
  \/ \E t \in Threads : GenerateField(t)
  \/ \E t \in Threads : FinishBuild(t)
  \/ \E t \in Threads : Become(t)
  \/ \E t \in Threads : Store(t)
  \/ \E t \in Threads : DelForward(t)
  \/ \E t \in Threads : RunParser(t)
  \/ \E t \in Threads : ClearCache(t)
  \/ \E t \in Threads : ClearFwd(t)

\* two threads share the cache
Spec == Init /\ [][Next]_vars

\* one thread
SpecSeq == InitSeq /\ [][Next]_vars

\* one thread, self-recursive and mutually recursive classes
InitRec ==
  DecodeOff /\ CodecOff /\ ErrorsOff
    /\ CacheInit({1}, {"Node", "Wrapper", "Ping", "Pong"}, MaxOps)

\* the steps of a call before its parser runs
Advance(t) ==
  \/ ParseCall(t) \/ CheckCache(t) \/ ReadCache(t) \/ CheckFwd(t) \/ ReadFwd(t)
  \/ Register(t) \/ CallBuild(t) \/ GenerateField(t) \/ FinishBuild(t)
  \/ Become(t) \/ Store(t) \/ DelForward(t) \/ ClearCache(t) \/ ClearFwd(t)

\* parse: its last statements return or raise, whichever the parser's outcome
Ends(t) ==
  /\ At(t, "parse", "run")
  /\ stack' = [stack EXCEPT ![t] = <<>>]
  /\ \E st \in {"ok", "ParseError", "ValueError"} :
        done' = [done EXCEPT ![t] = [op |-> "parse", cls |-> Top(t).cls,
                                     st |-> st, obj |-> Top(t).val]]
  /\ UNCHANGED <<parser_cache, forward_decls, heap, nops, ghostVars, decodeVars, codecVars, errVars>>

\* a thread runs the call it started to its end
SpecRec ==
  InitRec /\ [][Next]_vars /\ WF_vars(\E t \in Threads : Advance(t) \/ Ends(t))

\* ---------------------------------------------------- claims on the cache

\* the classes whose build raises a build-time error
Failing(cls) == IsErr(BuildModelParser(cls, {cls}))

Idle(t) == stack[t] = <<>>

\* C1: on one thread, between two cache clears a schema whose build succeeds
\* is built at most once and exactly once if it was requested; every request
\* answered from the cache or by the build returns the one cached instance,
\* a placeholder is handed out only by the build in progress, and no instance
\* returned after a clear was returned before it.
C1_BuildOncePerClear ==
  \A c \in CacheClasses :
    ~Failing(c) =>
      /\ builds[c] <= 1
      /\ Cardinality(returned[c]) <= 1
      /\ returned[c] # {} => (builds[c] = 1 /\ returned[c] = {parser_cache[c]})
      /\ lent[c] # {} => builds[c] = 1
      /\ (returned[c] \cup lent[c]) \cap retired = {}

C1_Witness ==
  /\ Idle(1)
  /\ done[1].op = "get" /\ done[1].cls = "Node" /\ done[1].st = "ok"
  /\ returned["Node"] = {done[1].obj}
  /\ \E o \in retired : heap[o].kind = "parser" /\ heap[o].cls = "Node"

\* every thread is in, or has finished, its first call, and it is no clear
FirstCalls ==
  \A t \in Threads :
    /\ nops[t] >= MaxParOps - 1
    /\ done[t].op # "clear"
    /\ Idle(t) \/ stack[t][1].op # "clear"

\* the part of _get_parser that writes _forward_decls and _parser_cache
Writing(t, c) ==
  \E j \in 1..Len(stack[t]) :
    /\ stack[t][j].op = "get" /\ stack[t][j].cls = c
    /\ stack[t][j].pc \in {"call_build", "field", "become", "store", "del"}

\* C2: when two threads race for the first request of a schema, at most one
\* of them is between registering the placeholder and removing it, exactly
\* one registers and builds, and no request raises.
C2_FirstRequestRace ==
  FirstCalls =>
    \A c \in CacheClasses :
      /\ Cardinality({t \in Threads : Writing(t, c)}) <= 1
      /\ regs[c] <= 1
      /\ builds[c] <= 1
      /\ \A t \in Threads : done[t].st # "KeyError"

\* C3: after the build of a schema raised a build-time error, no thread being
\* in a call, the registry is empty, the cache holds nothing for a schema whose
\* build raises, and every request for such a schema raised the error.
C3_FailedBuildLeavesNothing ==
  Idle(1) =>
    /\ \A c \in CacheClasses : forward_decls[c] = 0
    /\ \A c \in CacheClasses : Failing(c) => parser_cache[c] = 0
    /\ (done[1].op \in {"get", "parse"} /\ Failing(done[1].cls))
         => done[1].st = "TypeError"

\* the objects the parser held by thread t runs through
Held(t) == ReachFrom({Top(t).val}, {})

GetFrames == UNION {{stack[t][j] : j \in 1..Len(stack[t])} : t \in Threads}

\* the forward declarations that are resolved
Resolved == {o \in DOMAIN heap : heap[o].kind = "placeholder" /\ heap[o].target # 0}

\* a resolved forward declaration stands for a finished parser of its own
\* class and decodes every text as that parser does
ActsAsTarget(o) ==
  /\ heap[heap[o].target].kind = "parser"
  /\ heap[heap[o].target].cls = heap[o].cls
  /\ \A text \in CacheTexts :
       RunObject(o, heap[o].cls, text) = RunObject(heap[o].target, heap[o].cls, text)

PlaceholderStates ==
  /\ \A f \in GetFrames :
       /\ (f.op = "get" /\ f.pc \in {"call_build", "field", "become"})
            => IsUnresolved(f.ph)
       /\ (f.op = "get" /\ f.pc \in {"store", "del"})
            => heap[f.ph].target = f.val
  /\ \A o \in Resolved : ActsAsTarget(o)

\* C22: while a schema is being built its placeholder is unresolved; it is
\* resolved when the fields have been translated, to the parser just built,
\* and never again; from then on the placeholder, which every decoder that
\* captured it shares, decodes as that finished parser.
C22_ResolvedOnce ==
  /\ []PlaceholderStates
  /\ [][\A o \in Resolved : heap'[o] = heap[o]]_vars

\* Pong was built while Ping was building and captured Ping's placeholder,
\* which is resolved to Ping's cached parser
C22_Witness ==
  /\ Idle(1)
  /\ parser_cache["Ping"] # 0 /\ parser_cache["Pong"] # 0
  /\ \E o \in heap[parser_cache["Pong"]].refs :
       /\ heap[o].kind = "placeholder" /\ heap[o].cls = "Ping"
       /\ heap[o].target = parser_cache["Ping"]

\* the frame is inside build_model_parser
Translating(f) == f.op = "get" /\ f.pc \in {"call_build", "field"}

\* a request for a class whose build is in progress further down the stack
\* never registers or builds: it is answered from the registry
NoReentry ==
  \A t \in Threads : \A j \in 1..Len(stack[t]) : \A k \in (j + 1)..Len(stack[t]) :
    (Translating(stack[t][j]) /\ stack[t][k].op = "get"
       /\ stack[t][k].cls = stack[t][j].cls)
      => stack[t][k].pc \in {"check_cache", "check_fwd", "read_fwd"}

\* C23: building self-recursive and mutually recursive schemas ends: every
\* call that was started returns; between two clears the field translation
\* of a schema is entered at most once, and a reference to a schema whose
\* build is in progress is answered with its registered placeholder.
C23_BuildTerminates ==
  /\ [](NoReentry /\ \A c \in CacheClasses : builds[c] <= 1 /\ regs[c] <= 1)
  /\ ~Idle(1) ~> Idle(1)

\* the mutually recursive pair was built by one request: one translation
\* each, Ping's placeholder handed to Pong's build
C23_Witness ==
  /\ Idle(1)
  /\ done[1].op = "get" /\ done[1].cls = "Ping" /\ done[1].st = "ok"
  /\ builds["Ping"] = 1 /\ builds["Pong"] = 1
  /\ lent["Ping"] # {}

\* the schemas the fields of cls name
Mentions(cls) ==
  UNION {{Requests(FieldsOf(cls)[j].ty)[i] : i \in 1..Len(Requests(FieldsOf(cls)[j].ty))} :
           j \in 1..Len(FieldsOf(cls))}

RECURSIVE SchemasFrom(_, _)
\* the schemas reached from a set of schemas through their fields
SchemasFrom(todo, seen) ==
  IF todo = {} THEN seen
  ELSE LET c == CHOOSE x \in todo : TRUE
       IN  SchemasFrom((todo \ {c}) \cup (Mentions(c) \ (seen \cup {c})), seen \cup {c})

\* the cache maps cls to a parser of cls that reaches no unresolved placeholder
CachedFinished(cls) ==
  /\ parser_cache[cls] # 0
  /\ heap[parser_cache[cls]].kind = "parser"
  /\ heap[parser_cache[cls]].cls = cls
  /\ UnresolvedIn(ReachFrom({parser_cache[cls]}, {})) = {}

\* a request is between registering its placeholder and removing it
Building(f) ==
  f.op = "get" /\ f.pc \in {"call_build", "field", "become", "store", "del"}

C28_ParseRunsResolved ==
  \A t \in Threads :
    /\ At(t, "parse", "run") => UnresolvedIn(Held(t)) = {}
    /\ done[t].op = "parse" => done[t].st # "ValueError"

\* the thread's call is clear_parser_cache
Clears(u) == done[u].op = "clear" \/ (~Idle(u) /\ stack[u][1].op = "clear")

\* C29: when the only other call is a clear_parser_cache, a request does not
\* raise; once it has returned, its result is a finished parser of the schema
\* and the registry has no entry for the schema.
C29_ClearDuringBuild ==
  \A t \in Threads : \A u \in Threads \ {t} :
    Clears(u) =>
      /\ done[t].st # "KeyError"
      /\ (Idle(t) /\ done[t].op = "get") =>
            /\ heap[done[t].obj].kind = "parser"
            /\ UnresolvedIn(ReachFrom({done[t].obj}, {})) = {}
            /\ forward_decls[done[t].cls] = 0

\* the end of the maximal digit run after an optional '-' at the start
DigitRunEnd(text) == SpanIn(text, SignEnd(text, 0), Digits)

\* the leading digit run is not empty and '.', 'e' or 'E' follows it
FloatMarked(text) ==
  /\ DigitRunEnd(text) > SignEnd(text, 0)
  /\ DigitRunEnd(text) < Len(text)
  /\ text[DigitRunEnd(text) + 1] \in FloatLookahead

\* C25: the integer decoder consumes the maximal digit run or fails; it fails
\* when '.', 'e' or 'E' follows the run; a text of int | float | str that is
\* such a float literal is decoded as a float.
C25_IntegerRejectsFloat ==
  (Parsed /\ dcls = "UnionIFS") =>
     LET m == Run(ScalarParser(TInt), dtext, 0, ResolvedEnv)
     IN  /\ m.st = "ok" => m.idx = DigitRunEnd(dtext)
         /\ FloatMarked(dtext) => m.st # "ok"
         /\ (FloatMarked(dtext) /\ MatchFloat(dtext, 0) = Len(dtext)) =>
               (dres.st = "ok" /\ dres.val.v["value"].t = "float")

\* the schemas whose only field is a list of integers
ListClasses == {"SepList", "CommaList"}

\* the field's explicit list separator, else the schema's separator
ListSeparator(cls) ==
  LET m == FieldsOf(cls)[1].meta
  IN  IF m.has /\ m.sep_by # NoParser THEN m.sep_by ELSE GetFieldSeparator(cls)

\* C26: a list field is decoded as its elements separated by the field's
\* explicit list separator, or without one by the schema's separator.
C26_ListSeparator ==
  (Parsed /\ dcls \in ListClasses) =>
     LET r == ParseAll(PSepBy(ScalarParser(TInt), ListSeparator(dcls)), dtext,
                       ResolvedEnv)
     IN  /\ (dres.st = "ok") <=> (r.st = "ok")
         /\ dres.st = "ok" => dres.val.v["values"] = r.val

\* ------------------------------------------- model/base.py, codec.py (v2)

\* formatters of core.parser.Parser: str, or the join of the elements' texts
FStr == [f |-> "str"]
FJoin(e) == [f |-> "join", e |-> e]

\* core.parser.Parser(parser, formatter)
Wrapped(p, fmt) == [k |-> "parser", p |-> p, fmt |-> fmt]

RECURSIVE Lookup(_, _)
LookupFrom(tc, cls, parent) ==
  IF tc[cls] # 0 THEN tc[cls]
  ELSE IF parent = "" \/ parent \notin DOMAIN tc THEN 0
  ELSE Lookup(tc, parent)

\* cls._text_codec: the attribute found along the MRO, 0 for None
Lookup(tc, cls) == LookupFrom(tc, cls, ClassTable[cls].parent)

\* model_config.get("parse_separator"): a string, or None
ParseSeparator(cls) ==
  CASE cls = "Csv" -> StrV(<<",">>)
    [] cls = "CommaSpaced" -> [t |-> "parser", v |-> PRegex("comma")]
    [] OTHER -> NoneV

SeparatorString(sep) == IF sep.t = "str" THEN sep.v ELSE <<" ">>

\* get_separator_string
GetSeparatorString(cls) == SeparatorString(ParseSeparator(cls))

FieldSeparatorFor(sep) ==
  CASE sep.t = "str" -> PString(sep.v)
    [] sep.t = "parser" -> sep.v
    [] OTHER -> PRegex("ws")

\* config.get_field_separator: the default is one or more whitespace
\* characters, a string separator is matched literally
GetFieldSeparatorV2(cls) == FieldSeparatorFor(ParseSeparator(cls))

RECURSIVE InferParser(_)

\* basic.infer_parser
InferBasic(ty) ==
  CASE ty.k = "int" -> Wrapped(PMap(PRegex("int"), Fn("int")), FStr)
    [] ty.k = "float" -> Wrapped(PMap(PRegex("float"), Fn("float")), FStr)
    [] ty.k = "str" -> Wrapped(PRegex("nws"), FStr)
    [] OTHER -> NoParser

\* inner_parser.optional(): the formatter is kept
OptionalOf(ip) ==
  IF ip.k # "parser" THEN ip ELSE Wrapped(POptional(ip.p), ip.fmt)

\* combined = parsers[0] | parsers[1] | ...: the formatter is str
UnionOfWrapped(ps) ==
  IF \E j \in 1..Len(ps) : ps[j].k = "error" THEN Err("TypeError")
  ELSE IF \E j \in 1..Len(ps) : ps[j].k # "parser" THEN NoParser
  ELSE Wrapped(FoldAlt([j \in 1..Len(ps) |-> ps[j].p]), FStr)

\* element_parser.sep_by(whitespace())
ListOfWrapped(ep) ==
  IF ep.k # "parser" THEN ep
  ELSE Wrapped(PSepBy(ep.p, PRegex("ws")), FJoin(ep.fmt))

\* the inner annotation of an Optional
InnerOf(nn) == IF Len(nn) = 1 THEN nn[1] ELSE TUnion(nn)

\* container.infer_parser
InferParser(ty) ==
  CASE ty.k = "union" /\ Len(NonNone(ty.args)) < Len(ty.args) /\ NonNone(ty.args) # <<>> ->
         OptionalOf(InferParser(InnerOf(NonNone(ty.args))))
    [] ty.k = "union" /\ Len(NonNone(ty.args)) = Len(ty.args) /\ Len(ty.args) > 1 ->
         UnionOfWrapped([j \in 1..Len(ty.args) |-> InferParser(ty.args[j])])
    [] ty.k = "list" -> ListOfWrapped(InferParser(ty.elem))
    [] ty.k = "barelist" -> Err("TypeError")
    [] OTHER -> InferBasic(ty)

\* get_parser_for_field of each field
BuildFieldParsers(fields) ==
  [j \in 1..Len(fields) |->
     [name |-> fields[j].name, parser |-> InferParser(fields[j].ty)]]

\* field1, sep, field2, sep, field3, ...
Interleaved(fps, sep) ==
  [j \in 1..(2 * Len(fps) - 1) |->
     IF j % 2 = 1 THEN fps[(j + 1) \div 2].parser.p ELSE sep]

\* TextCodec._build_combined_parser
BuildCombinedParser(fps, sep) ==
  IF fps = <<>> THEN PSuccess(DictV(<<>>))
  ELSE PMap(PSeq(Interleaved(fps, sep)),
            [f |-> "to_dict", names |-> [j \in 1..Len(fps) |-> fps[j].name]])

NoCodec == [ok |-> FALSE]

\* the object TextCodec.__init__ leaves; NoCodec when _build_field_parsers
\* raises TypeError
CodecWith(cls, fps) ==
  IF \E j \in 1..Len(fps) : fps[j].parser.k # "parser" THEN NoCodec
  ELSE [ok |-> TRUE,
        model_class |-> cls,
        separator_str |-> GetSeparatorString(cls),
        field_parsers |-> fps,
        combined |-> BuildCombinedParser(fps, GetFieldSeparatorV2(cls))]

\* TextCodec(cls)
TextCodec(cls) == CodecWith(cls, BuildFieldParsers(FieldsOf(cls)))

\* cls._text_codec = TextCodec(cls)
Assigned(st, cls, codec) ==
  IF codec.ok
  THEN [tc |-> [st.tc EXCEPT ![cls] = Len(st.cs) + 1],
        cs |-> Append(st.cs, codec), raised |-> FALSE]
  ELSE [tc |-> st.tc, cs |-> st.cs, raised |-> TRUE]

\* _get_codec: the class attributes and the codecs after the call
EnsureCodec(st, cls) ==
  IF Lookup(st.tc, cls) # 0 THEN st ELSE Assigned(st, cls, TextCodec(cls))

\* str(value)
StrOf(v) ==
  CASE v.t = "int" -> IntToChars(v.v)
    [] v.t = "str" -> v.v
    [] v.t = "none" -> <<"N", "o", "n", "e">>

RECURSIVE Format(_, _)
\* Parser.format
Format(fmt, v) ==
  CASE fmt.f = "str" -> StrOf(v)
    [] fmt.f = "join" -> Join(<<" ">>, [j \in 1..Len(v.v) |-> Format(fmt.e, v.v[j])])

\* TextCodec.serialize
Serialize(codec, inst) ==
  Join(codec.separator_str,
       [j \in 1..Len(codec.field_parsers) |->
          Format(codec.field_parsers[j].parser.fmt,
                 inst.v[codec.field_parsers[j].name])])

\* the value or the error TextCodec.parse ends with: every exception raised
\* while the combined parser runs is converted (except Exception), the
\* final model_validate(data) is outside the try
Decoded(cls, r) ==
  IF r.st = "ok"
  THEN (IF Validates(cls, r.val.v)
        THEN [st |-> "ok", val |-> ModelV(cls, r.val.v)]
        ELSE [st |-> "ValidationError", val |-> NoneV])
  ELSE [st |-> "ParseError", val |-> NoneV]

\* TextCodec.parse
CodecParse(codec, text) ==
  Decoded(codec.model_class, ParseAll(codec.combined, text, <<>>))

\* ------------------------------------------ specification: the codecs

\* the longest list a list field holds
MaxList == 2

CodecClasses ==
  {"Parent", "Child", "Point", "Csv", "Rec", "Tagged", "Bag", "Line", "CommaSpaced"}

\* the classes whose codec is requested directly
RequestedClasses == {"Parent", "Child", "Point", "Line"}

IntValues == {IntV(-1), IntV(0), IntV(12)}

StrValues == {StrV(<<"a">>), StrV(<<"1">>)}

RECURSIVE ListsUpTo(_, _)
ListsUpTo(S, n) ==
  IF n = 0 THEN {<<>>}
  ELSE ListsUpTo(S, n - 1) \cup
       {Append(l, x) : l \in {m \in ListsUpTo(S, n - 1) : Len(m) = n - 1}, x \in S}

RECURSIVE ValuesOf(_)
RECURSIVE InstancesOf(_)

\* the values pydantic accepts for an annotation
ValuesOf(ty) ==
  CASE ty.k = "int" -> IntValues
    [] ty.k = "str" -> StrValues
    [] ty.k = "none" -> {NoneV}
    [] ty.k = "union" -> UNION {ValuesOf(ty.args[j]) : j \in 1..Len(ty.args)}
    [] ty.k = "list" -> {ListV(l) : l \in ListsUpTo(ValuesOf(ty.elem), MaxList)}
    [] ty.k = "model" -> InstancesOf(ty.cls)

FieldNames(fields) == {fields[j].name : j \in 1..Len(fields)}

FieldType(fields, n) == fields[CHOOSE j \in 1..Len(fields) : fields[j].name = n].ty

AttributesOf(fields) ==
  [FieldNames(fields) -> UNION {ValuesOf(fields[j].ty) : j \in 1..Len(fields)}]

\* the instances of a class
InstancesOf(cls) ==
  {ModelV(cls, d) : d \in {a \in AttributesOf(FieldsOf(cls)) :
      \A n \in FieldNames(FieldsOf(cls)) :
        a[n] \in ValuesOf(FieldType(FieldsOf(cls), n))}}

Instances == UNION {InstancesOf(c) : c \in CodecClasses}

\* the class attributes and the codec objects as they are now
Cached == [tc |-> text_codec, cs |-> codecs, raised |-> FALSE]

\* the codec _get_codec returns once the attributes are st
CodecOf(st, cls) == st.cs[Lookup(st.tc, cls)]

\* what a _get_codec call gave: a codec object, or TypeError
Got(st, cls) ==
  IF st.raised THEN [st |-> "TypeError", id |-> 0]
  ELSE [st |-> "ok", id |-> Lookup(st.tc, cls)]

Returned(st, cls) ==
  /\ text_codec' = st.tc
  /\ codecs' = st.cs
  /\ got' = [got EXCEPT ![cls] = Got(st, cls)]
  /\ UNCHANGED <<rt, decodeVars, cacheVars, ghostVars, errVars>>

\* cls._get_codec()
GetCodec(cls) == Returned(EnsureCodec(Cached, cls), cls)

TypeErrorRaised == [st |-> "TypeError", val |-> NoneV]

Encoded(st) ==
  /\ text_codec' = st.tc
  /\ codecs' = st.cs
  /\ rt' = IF st.raised
           THEN [rt EXCEPT !.stage = "failed", !.back = TypeErrorRaised]
           ELSE [rt EXCEPT !.stage = "encoded",
                           !.text = Serialize(CodecOf(st, rt.val.cls), rt.val)]
  /\ UNCHANGED <<got, decodeVars, cacheVars, ghostVars, errVars>>

\* value.to_text()
ToText ==
  /\ rt.stage = "value"
  /\ Encoded(EnsureCodec(Cached, rt.val.cls))

Reread(st) ==
  /\ text_codec' = st.tc
  /\ codecs' = st.cs
  /\ rt' = [rt EXCEPT !.stage = "decoded",
                      !.back = CodecParse(CodecOf(st, rt.val.cls), rt.text)]
  /\ UNCHANGED <<got, decodeVars, cacheVars, ghostVars, errVars>>

\* type(value).from_text(text)
FromText ==
  /\ rt.stage = "encoded"
  /\ Reread(EnsureCodec(Cached, rt.val.cls))

ReEncoded(st) ==
  /\ text_codec' = st.tc
  /\ codecs' = st.cs
  /\ rt' = [rt EXCEPT !.stage = "reencoded",
                      !.again = Serialize(CodecOf(st, rt.back.val.cls), rt.back.val)]
  /\ UNCHANGED <<got, decodeVars, cacheVars, ghostVars, errVars>>

\* decoded.to_text()
ReEncode ==
  /\ rt.stage = "decoded"
  /\ rt.back.st = "ok"
  /\ ReEncoded(EnsureCodec(Cached, rt.back.val.cls))

InitCodec ==
  /\ DecodeOff
  /\ CacheOff
  /\ ErrorsOff
  /\ CodecInit(CodecClasses)
  /\ \E v \in Instances : rt = [NoRoundTrip EXCEPT !.stage = "value", !.val = v]

NextCodec ==
  \/ \E c \in RequestedClasses : GetCodec(c)
  \/ ToText
  \/ FromText
  \/ ReEncode

SpecCodec == InitCodec /\ [][NextCodec]_vars

\* ------------------------------------------------------- claims: codecs

\* C4: two distinct schemas never share a cached codec. Whatever the order
\* of the requests, the codec returned for a class is built from that class's
\* own fields and is not the instance returned for another class.
C4_DistinctCodecs ==
  \A p \in DOMAIN got : \A c \in DOMAIN got :
    (p # c /\ got[p].st = "ok" /\ got[c].st = "ok") =>
      /\ got[p].id # got[c].id
      /\ codecs[got[c].id].model_class = c

\* C5: for every value, encoding it and decoding the encoder's output with
\* the same codec succeeds and gives a value equal to the original:
\* decode(encode(v)) = v.
C5_RoundTrip ==
  rt.stage \in {"failed", "decoded", "reencoded"} =>
    /\ rt.back.st = "ok"
    /\ rt.back.val = rt.val

\* C6: re-encoding is idempotent: the decode of encode(v) gives a value and
\* encode(decode(encode(v))) = encode(v).
C6_IdempotentReEncode ==
  /\ rt.stage = "decoded" => rt.back.st = "ok"
  /\ rt.stage = "reencoded" => rt.again = rt.text

\* the names of the fields of the instance that hold a value
PresentFields(inst) ==
  SelectSeq([j \in 1..Len(FieldsOf(inst.cls)) |-> FieldsOf(inst.cls)[j].name],
            LAMBDA n : inst.v[n] # NoneV)

\* C27: the text of a record with an absent optional field is the texts of
\* the fields that hold a value joined by the separator: the absent field
\* contributes neither a text, such as "None", nor a separator.
C27_AbsentOmitted ==
  (rt.stage = "encoded" /\ Len(PresentFields(rt.val)) < Len(FieldsOf(rt.val.cls))) =>
     rt.text = Join(GetSeparatorString(rt.val.cls),
                    [j \in 1..Len(PresentFields(rt.val)) |->
                       StrOf(rt.val.v[PresentFields(rt.val)[j]])])

\* C30: the separator string a codec encodes with is a text its own separator
\* matcher accepts, whether the schema gives the separator as a string, as a
\* parser or not at all.
C30_SeparatorAccepted ==
  \A i \in DOMAIN codecs :
    codecs[i].ok =>
      ParseAll(GetFieldSeparatorV2(codecs[i].model_class), codecs[i].separator_str,
               <<>>).st = "ok"

\* ------------------------------ errors.py, errors/parse_error.py

NL == "\n"

CR == "\r"

Min2(a, b) == IF a <= b THEN a ELSE b

\* text.count(ch, 0, index)
Count(text, ch, index) == Cardinality({k \in 1..index : text[k] = ch})

\* text.rfind(ch, 0, index): the offset of the last ch before index, or -1
RFind(text, ch, index) ==
  LET at == {k \in 1..index : text[k] = ch}
  IN IF at = {} THEN -1 ELSE (CHOOSE k \in at : \A j \in at : j <= k) - 1

\* index < 0 gives 0, index > len(text) gives len(text)
Clamp(index, n) == Max2(0, Min2(index, n))

\* the column counted from the start of the text, whatever the line
ColumnFromStart(index, last_newline) == index + 1

\* the column is the distance from the most recent newline, or from the
\* start of the text, plus one
ColumnFrom(index, last_newline) ==
  IF last_newline = -1 THEN index + 1 ELSE index - last_newline

\* if column <= 0: column = 1
AtLeastOne(column) == IF column <= 0 THEN 1 ELSE column

\* line and column of an index that is already clamped
LineColumnAt(text, index) ==
  [line |-> Count(text, NL, index) + 1,
   column |-> AtLeastOne(ColumnFrom(index, RFind(text, NL, index)))]

\* get_line_column(text, index), ParseError._get_line_column(text, index)
GetLineColumn(text, index) == LineColumnAt(text, Clamp(index, Len(text)))

\* the line boundaries of str.splitlines() among the characters used here
\* ("\r\n" counts as one boundary)
LineBoundaries == {NL, CR}

RECURSIVE SplitLines(_, _)
\* str.splitlines(): the lines without their boundaries; no empty line is
\* reported after a final boundary. cur is the line being collected
SplitLines(s, cur) ==
  IF s = <<>> THEN (IF cur = <<>> THEN <<>> ELSE <<cur>>)
  ELSE IF Len(s) >= 2 /\ s[1] = CR /\ s[2] = NL
       THEN <<cur>> \o SplitLines(Tail(Tail(s)), <<>>)
       ELSE IF Head(s) \in LineBoundaries
            THEN <<cur>> \o SplitLines(Tail(s), <<>>)
            ELSE SplitLines(Tail(s), Append(cur, Head(s)))

\* " " * (column - 1) + "^"
MarkerLine(column) == [k \in 1..column |-> IF k = column THEN "^" ELSE " "]

\* lines[line - 1] if 1 <= line <= len(lines), else ""
LineOr(lines, line) == IF line \in 1..Len(lines) THEN lines[line] ELSE <<>>

\* _get_context_line(text, line)
GetContextLine(text, line) ==
  IF text = <<>> THEN <<>> ELSE LineOr(SplitLines(text, <<>>), line)

\* errors.py: a ParseError and the lines str() puts after its header
Rendered(text, lc) ==
  [line |-> lc.line, column |-> lc.column, field |-> NoField,
   tail |-> <<GetContextLine(text, lc.line), MarkerLine(lc.column)>>]

\* ParseError.from_parsy_error(exc, text), exc.index = index
FromParsyError(text, index) == Rendered(text, GetLineColumn(text, index))

\* errors/parse_error.py, __str__: context and caret only for a text that
\* is not empty and a line that splitlines() reports
ContextAndCaret(text, lines, lc) ==
  IF text # <<>> /\ lc.line - 1 \in 0..(Len(lines) - 1)
  THEN <<lines[lc.line], MarkerLine(lc.column)>>
  ELSE <<>>

\* errors/parse_error.py: a ParseError and the lines str() puts after
\* its header
RenderedNamed(text, lc, field_name) ==
  [line |-> lc.line, column |-> lc.column, field |-> field_name,
   tail |-> ContextAndCaret(text, SplitLines(text, <<>>), lc)]

\* convert_parsy_error(parsy_error, text, field_name), parsy_error.index = index
ConvertParsyError(text, index, field_name) ==
  RenderedNamed(text, GetLineColumn(text, index), field_name)

\* ------------------------------------- specification: failure reports

MaxText == 4

ErrChars == {"a", "b", NL, CR}

ErrTexts == UNION {[1..n -> ErrChars] : n \in 0..MaxText}

InitErrors ==
  /\ DecodeOff
  /\ CacheOff
  /\ CodecOff
  /\ etext \in ErrTexts
  /\ eindex \in -1..(Len(etext) + 1)
  /\ eerr = NoError
  /\ estage = "input"

\* models.py, parse: raise ParseError.from_parsy_error(exc, text)
RaiseFromParsy ==
  /\ estage = "input"
  /\ eerr' = FromParsyError(etext, eindex)
  /\ estage' = "raised"
  /\ UNCHANGED <<etext, eindex, decodeVars, cacheVars, ghostVars, codecVars>>

\* codec.py, parse: raise convert_parsy_error(e, text)
RaiseConverted ==
  /\ estage = "input"
  /\ eerr' = ConvertParsyError(etext, eindex, NoField)
  /\ estage' = "raised"
  /\ UNCHANGED <<etext, eindex, decodeVars, cacheVars, ghostVars, codecVars>>

NextErrors ==
  \/ RaiseFromParsy
  \/ RaiseConverted

SpecErrors == InitErrors /\ [][NextErrors]_vars

\* -------------------------------------------- claims: failure reports

\* the index clamped to [0, len(text)]
Clamped ==
  IF eindex < 0 THEN 0 ELSE IF eindex > Len(etext) THEN Len(etext) ELSE eindex

\* the positions of the newline characters before the clamped index
NewlinesBefore == {k \in 1..Clamped : etext[k] = NL}

\* the offset at which the line of the clamped index starts
LineStart ==
  IF NewlinesBefore = {} THEN 0
  ELSE CHOOSE k \in NewlinesBefore : \A j \in NewlinesBefore : j <= k

\* C17: for every text and index the reported line is 1 + the number of
\* newline characters before the index clamped to [0, len(text)], the
\* reported column is the clamped index minus the offset at which that line
\* starts, plus 1, and both are at least 1.
C17_LineColumn ==
  estage = "raised" =>
    /\ eerr.line = 1 + Cardinality(NewlinesBefore)
    /\ eerr.column = Clamped - LineStart + 1
    /\ eerr.line >= 1
    /\ eerr.column >= 1

\* an index beyond the end of a two-line text is reported at the end of
\* the second line
C17_Witness ==
  /\ estage = "raised"
  /\ etext = <<"a", NL, "b">>
  /\ eindex = 4
  /\ eerr.line = 2
  /\ eerr.column = 2

\* the offset at which the line of the clamped index ends
LineEnd ==
  LET after == {k \in (Clamped + 1)..Len(etext) : etext[k] = NL}
  IN IF after = {} THEN Len(etext)
     ELSE (CHOOSE k \in after : \A j \in after : k <= j) - 1

\* the line, delimited by newline characters, that holds the clamped index
SourceLine == Slice(etext, LineStart, LineEnd)

\* a occurs in b
IsInfix(a, b) ==
  \E i \in 0..(Len(b) - Len(a)) : Slice(b, i, i + Len(a)) = a

\* C18: for every text and index the rendered message, after its header,
\* contains the source line that holds the clamped index and ends with a
\* caret line of column - 1 spaces followed by "^", also for the empty text
\* and for an index just after a trailing newline.
C18_MessageShowsLine ==
  estage = "raised" =>
    /\ eerr.tail # <<>>
    /\ eerr.tail[Len(eerr.tail)] =
         [k \in 1..eerr.column |-> IF k = eerr.column THEN "^" ELSE " "]
    /\ \E k \in 1..(Len(eerr.tail) - 1) : IsInfix(SourceLine, eerr.tail[k])

\* ------------------------- inference/inference.py: nested records (v2)

FToText == [f |-> "to_text"]

RECURSIVE InferredCodec(_)

\* _build_model_parser: the combined parser of the nested class's codec,
\* mapped through annotation.model_validate
BuildNestedModelParser(cls) ==
  Wrapped(PMap(InferredCodec(cls).combined, [f |-> "to_model", cls |-> cls]),
          FToText)

\* get_parser_for_field of inference/inference.py: a nested record class
\* has a parser, the other annotations are decoded as above
InferField(ty) ==
  IF ty.k = "model" THEN BuildNestedModelParser(ty.cls) ELSE InferParser(ty)

\* TextCodec(cls) with the field parsers this module infers
InferredCodec(cls) ==
  CodecWith(cls, [j \in 1..Len(FieldsOf(cls)) |->
                    [name |-> FieldsOf(cls)[j].name,
                     parser |-> InferField(FieldsOf(cls)[j].ty)]])

\* what from_text leaves to its caller: the instance or the exception.
\* convert_parsy_error takes the index of a parsy failure, 0 for any other
\* exception
Raised(d, r) ==
  [st |-> d.st, val |-> d.val,
   index |-> IF d.st # "ParseError" THEN -1 ELSE IF r.st = "fail" THEN r.far ELSE 0,
   field |-> NoField]

\* codec.parse(text)
CodecOutcome(codec, text) ==
  Raised(CodecParse(codec, text), ParseAll(codec.combined, text, <<>>))

\* ------------------------------ specification: validation after decoding

ValidatedClasses == {"Limited", "Holder"}

ValidatedVocab == {<<"1">>, <<"-", "1">>, <<" ">>, <<"x">>}

ValidatedTexts ==
  {Flatten(ts) : ts \in UNION {[1..n -> ValidatedVocab] : n \in 0..MaxTokens}}

InitValidation ==
  /\ dcls \in ValidatedClasses
  /\ dtext \in ValidatedTexts
  /\ dres = NoResult
  /\ dstage = "input"
  /\ CacheOff
  /\ CodecOff
  /\ ErrorsOff

\* cls.from_text(text), the fields of the codec inferred by
\* inference/inference.py
FromTextInferred ==
  /\ dstage = "input"
  /\ InferredCodec(dcls).ok
  /\ dres' = CodecOutcome(InferredCodec(dcls), dtext)
  /\ dstage' = "parsed"
  /\ UNCHANGED <<dcls, dtext>>
  /\ UNCHANGED <<cacheVars, ghostVars, codecVars, errVars>>

NextValidation ==
  \/ Parse
  \/ FromTextInferred

SpecValidation == InitValidation /\ [][NextValidation]_vars

\* ------------------------------------- claims: validation after decoding

NotIntegers == [ok |-> FALSE, vals |-> <<>>]

RECURSIVE IntegersFrom(_, _)
\* the integers of a text that is a run of integers separated by
\* whitespace, read from pos
IntegersFrom(text, pos) ==
  LET e == MatchInteger(text, pos)
      w == MatchWhitespace(text, e)
  IN  IF e < 0 THEN NotIntegers
      ELSE IF e = Len(text)
           THEN [ok |-> TRUE, vals |-> <<IntOfChars(Slice(text, pos, e))>>]
           ELSE IF w < 0 THEN NotIntegers
                ELSE [ok |-> IntegersFrom(text, w).ok,
                      vals |-> <<IntOfChars(Slice(text, pos, e))>>
                                 \o IntegersFrom(text, w).vals]

RECURSIVE Leaves(_)
\* the integer fields of a record in text order, nested records unfolded
Leaves(cls) ==
  Flatten([j \in 1..Len(FieldsOf(cls)) |->
             IF FieldsOf(cls)[j].ty.k = "model"
             THEN Leaves(FieldsOf(cls)[j].ty.cls)
             ELSE <<[cls |-> cls, name |-> FieldsOf(cls)[j].name]>>])

\* the text is a well-formed record whose values break a host constraint
BreaksConstraint(cls, text) ==
  /\ IntegersFrom(text, 0).ok
  /\ Len(IntegersFrom(text, 0).vals) = Len(Leaves(cls))
  /\ \E j \in 1..Len(Leaves(cls)) :
       /\ Leaves(cls)[j].name \in NonNegativeFields(Leaves(cls)[j].cls)
       /\ IntegersFrom(text, 0).vals[j] < 0

====
